---- MODULE Spec2Model ----
(***************************************************************************)
(* Model of the Instance Lifecycle Orchestrator of Discord-Dedi-Bot        *)
(* (src/index.js): the provisioning pipeline createInstanceFromSnapshot,   *)
(* the panel render guard updatePanel, and the self-destruct timer engine  *)
(* with the registry instanceState and the handlers that touch timers.     *)
(*                                                                         *)
(* Every asynchronous function is cut at its awaits: one action is the     *)
(* synchronous code that runs between two suspension points.  A provider   *)
(* or Discord call is issued at the end of one action and its outcome is   *)
(* the input (\E) of the action that resumes the function.                 *)
(***************************************************************************)
EXTENDS Integers, Sequences, FiniteSets, TLC

VARIABLES
  \* ---- createInstanceFromSnapshot (index.js:962-1190) ----
  firewallGroupId,   \* process.env.VULTR_FIREWALL_GROUP_ID
  snapshotId,        \* the snapshotId argument of the one modelled call
  cisPc,             \* position of the one modelled call
  instanceId,        \* const instanceId = response.instance.id
  firewallAttached,  \* let firewallAttached
  retryCount,        \* let retryCount
  cisResult,         \* what the call returned or threw
  provInstances,     \* instance ids that exist at the provider
  provFirewall,      \* instance ids whose firewall group is the requested one
  createRequests,    \* create-instance requests the provider received
  attachRequests,    \* updateInstance(firewall_group_id) requests received
  deleteRequests,    \* deleteInstance requests received for instanceId
  created,           \* instance ids the call caused to be created
  verified,          \* instance ids whose attachment a re-fetch confirmed
  failedAttempts,    \* loop iterations that ended without verification
  \* ---- updatePanel (index.js:2124-2473) and its callers ----
  panelUpdateInProgress,  \* let panelUpdateInProgress
  pendingPanelUpdate,     \* let pendingPanelUpdate
  panelData,              \* which of panelData.messageId / channelId are set
  up,                     \* the running updatePanel invocations
  queuedTimers,           \* pending setTimeout(updatePanel, 100) of the finally block
  periodicOn,             \* the ready handler has installed the 3 s setInterval
  extCalls,               \* calls made by triggers other than the finally block
  renderStarts,           \* times the render section was entered
  callsDuringFirst,       \* trigger calls made while render no. 1 was in progress
  lateCalls,              \* trigger calls made after render no. 1 completed
  unserved,               \* calls made since the render section was last entered
  \* ---- instanceState, self-destruct timers, pollers and handlers ----
  now,            \* Date.now(), in minutes
  swept,          \* a checkTimers run has started in the current minute
  booted,         \* the ready handler has run (recovery done, sweep interval installed)
  instances,      \* instanceState.instances
  timers,         \* the selfDestructTimer objects ever allocated, by reference
  prov,           \* the provider's view of each instance id
  sweeps,         \* the checkTimers runs in flight
  statusPoll,     \* the startInstanceStatusPolling run
  createCmd,      \* the create flow after createInstanceFromSnapshot returned
  destroyCmd,     \* the destroy_server handler
  destroyPoll,    \* the startInstanceDestructionPolling run
  powerCmd,       \* the startInstance / stopInstance handler
  coins,          \* extension requests handled so far
  coinReply,      \* what the last extension request was answered with
  lists,          \* /list reconciliations run so far
  sent,           \* direct messages delivered, in order
  timerSets,      \* per id: times the record went from no timer to a timer
  everRunning,    \* ids whose record has had status "running"
  everDestroyed   \* ids whose record has had status "destroyed"

cisArgs == <<firewallGroupId, snapshotId>>

cisVars == <<cisArgs, cisPc, instanceId, firewallAttached, retryCount, cisResult,
             provInstances, provFirewall, createRequests, attachRequests,
             deleteRequests, created, verified, failedAttempts>>

panelVars == <<panelUpdateInProgress, pendingPanelUpdate, panelData, up,
               queuedTimers, periodicOn, extCalls, renderStarts,
               callsDuringFirst, lateCalls, unserved>>

regVars == <<instances, timerSets, everRunning, everDestroyed>>

tVars == <<now, swept, booted, regVars, timers, prov, sweeps, statusPoll,
           createCmd, destroyCmd, destroyPoll, powerCmd, coins, coinReply, lists, sent>>

vars == <<cisVars, panelVars, tVars>>

Null == "null"

(***************************************************************************)
(* createInstanceFromSnapshot                                              *)
(***************************************************************************)

maxRetries == 10

\* The id the SDK's create response carries, and the id of the instance the
\* diagnostic POST creates (its response body is only logged).
SdkInstance == "i1"
DiagInstance == "i2"

FirewallEnv == {"absent", "malformed", "uuid"}
SnapshotArg == {"empty", "malformed", "unlisted", "listed"}

\* Error messages thrown inside the function's try block.
ErrorKinds == {"FirewallIdMissing", "FirewallIdFormat", "SnapshotIdFormat",
               "SnapshotsCallFailed", "SnapshotNotFound", "VultrApiError",
               "EmptyResponse", "EmptyResponseDirectFailed", "InvalidResponse",
               "MissingId", "SecurityFailure"}

\* Which of the substrings tested by the outer catch each message contains.
ErrorMarkers(kind) ==
  CASE kind = "FirewallIdMissing" -> {"VULTR_FIREWALL_GROUP_ID"}
    [] kind = "FirewallIdFormat" -> {"Invalid"}
    [] kind = "SnapshotIdFormat" -> {"Invalid"}
    [] kind = "SnapshotsCallFailed" -> {}
    [] kind = "SnapshotNotFound" -> {"Snapshot"}
    [] kind = "VultrApiError" -> {"Vultr API"}
    [] kind = "EmptyResponse" -> {"Vultr API"}
    [] kind = "EmptyResponseDirectFailed" -> {"Vultr API"}
    [] kind = "InvalidResponse" -> {"Invalid"}
    [] kind = "MissingId" -> {}
    [] kind = "SecurityFailure" -> {}

\* The outer catch: rethrow as is when the message has a known marker,
\* otherwise wrap it in "Failed to create instance: ...".
OuterCatch(kind) ==
  [outcome |-> "thrown", error |-> kind,
   wrapped |-> (ErrorMarkers(kind) \cap
                {"VULTR_FIREWALL_GROUP_ID", "Invalid", "Vultr API",
                 "Failed to attach", "Snapshot"} = {})]

AttachLoopStopsEarly(attached, count) == ~attached /\ count < maxRetries - 1

\* a loop test that looks at the attempt count only
AttachLoopIgnoresVerified(attached, count) == count < maxRetries

\* while (!firewallAttached && retryCount < maxRetries)
AttachLoopContinues(attached, count) == ~attached /\ count < maxRetries

CisThrow(kind) ==
  /\ cisPc' = "thrown"
  /\ cisResult' = OuterCatch(kind)

\* a validation that tests the firewall group id for presence only
CisCallAnyFirewallFormat(fw, snap) ==
  /\ cisPc = "idle"
  /\ fw = firewallGroupId
  /\ snap = snapshotId
  /\ IF fw = "absent" THEN CisThrow("FirewallIdMissing")
     ELSE IF snap \in {"empty", "malformed"} THEN CisThrow("SnapshotIdFormat")
     ELSE /\ cisPc' = IF snap = "listed" THEN "getSnapshots" ELSE "getSnapshotsUnlisted"
          /\ UNCHANGED cisResult
  /\ UNCHANGED <<instanceId, firewallAttached, retryCount, provInstances,
                 provFirewall, createRequests, attachRequests, deleteRequests,
                 created, verified, failedAttempts>>

\* Validation up to the first await (getSnapshots).
CisCall(fw, snap) ==
  /\ cisPc = "idle"
  /\ fw = firewallGroupId
  /\ snap = snapshotId
  /\ IF fw = "absent" THEN CisThrow("FirewallIdMissing")
     ELSE IF fw = "malformed" THEN CisThrow("FirewallIdFormat")
     ELSE IF snap \in {"empty", "malformed"} THEN CisThrow("SnapshotIdFormat")
     ELSE /\ cisPc' = IF snap = "listed" THEN "getSnapshots" ELSE "getSnapshotsUnlisted"
          /\ UNCHANGED cisResult
  /\ UNCHANGED <<instanceId, firewallAttached, retryCount, provInstances,
                 provFirewall, createRequests, attachRequests, deleteRequests,
                 created, verified, failedAttempts>>

\* getSnapshots resolves or rejects; on success the create request is sent.
CisSnapshotsReturn(ok) ==
  /\ cisPc \in {"getSnapshots", "getSnapshotsUnlisted"}
  /\ IF ~ok THEN CisThrow("SnapshotsCallFailed") /\ UNCHANGED createRequests
     ELSE IF cisPc = "getSnapshotsUnlisted"
       THEN CisThrow("SnapshotNotFound") /\ UNCHANGED createRequests
     ELSE /\ cisPc' = "createInstance"
          /\ createRequests' = createRequests + 1
          /\ UNCHANGED cisResult
  /\ UNCHANGED <<instanceId, firewallAttached, retryCount, provInstances,
                 provFirewall, attachRequests, deleteRequests, created,
                 verified, failedAttempts>>

CreateResponses == {"instance", "empty", "noInstance", "noId", "rejected"}

\* The head of the while loop, entered with the loop variables as given:
\* either one more attempt (the attach request is sent), or the code after
\* the loop up to its next await (teardown delete, or the DDoS update).
CisLoopHead(attached, count) ==
  IF AttachLoopContinues(attached, count)
    THEN /\ retryCount' = count + 1
         /\ attachRequests' = attachRequests + 1
         /\ cisPc' = "attach"
         /\ UNCHANGED deleteRequests
    ELSE /\ retryCount' = count
         /\ UNCHANGED attachRequests
         /\ IF ~attached
              THEN cisPc' = "teardown" /\ deleteRequests' = deleteRequests + 1
              ELSE cisPc' = "ddos" /\ UNCHANGED deleteRequests

\* vultr.instances.createInstance resolves or rejects (index.js:1003-1095).
CisCreateReturn(resp) ==
  /\ cisPc = "createInstance"
  /\ CASE resp = "rejected" ->
            /\ CisThrow("VultrApiError")
            /\ UNCHANGED <<instanceId, firewallAttached, retryCount, provInstances,
                           createRequests, attachRequests, deleteRequests, created>>
       [] resp = "empty" ->
            \* the diagnostic POST /v2/instances is sent
            /\ cisPc' = "diagnostic"
            /\ createRequests' = createRequests + 1
            /\ UNCHANGED <<cisResult, instanceId, firewallAttached, retryCount,
                           provInstances, attachRequests, deleteRequests, created>>
       [] resp = "noInstance" ->
            /\ CisThrow("InvalidResponse")
            /\ UNCHANGED <<instanceId, firewallAttached, retryCount, provInstances,
                           createRequests, attachRequests, deleteRequests, created>>
       [] resp = "noId" ->
            /\ CisThrow("MissingId")
            /\ UNCHANGED <<instanceId, firewallAttached, retryCount, provInstances,
                           createRequests, attachRequests, deleteRequests, created>>
       [] resp = "instance" ->
            /\ provInstances' = provInstances \cup {SdkInstance}
            /\ created' = created \cup {SdkInstance}
            /\ instanceId' = SdkInstance
            /\ firewallAttached' = FALSE
            /\ CisLoopHead(FALSE, 0)
            /\ UNCHANGED <<cisResult, createRequests>>
  /\ UNCHANGED <<provFirewall, verified, failedAttempts>>

\* The direct fetch() of the empty-response diagnostic (index.js:1049-1077).
\* An accepted POST /v2/instances creates an instance at the provider.
CisDiagnosticReturn(resp) ==
  /\ cisPc = "diagnostic"
  /\ IF resp = "ok"
       THEN /\ provInstances' = provInstances \cup {DiagInstance}
            /\ created' = created \cup {DiagInstance}
            /\ CisThrow("EmptyResponse")
       ELSE /\ CisThrow("EmptyResponseDirectFailed")
            /\ UNCHANGED <<provInstances, created>>
  /\ UNCHANGED <<instanceId, firewallAttached, retryCount, provFirewall,
                 createRequests, attachRequests, deleteRequests, verified,
                 failedAttempts>>

\* updateInstance(firewall_group_id) resolves or rejects.  An acknowledged
\* call is followed by the 3 s settle wait; a rejected one by the 10 s wait
\* when attempts remain, else by the loop test at once.
CisAttachReturn(resp) ==
  /\ cisPc = "attach"
  /\ CASE resp = "rejected" ->
            /\ failedAttempts' = failedAttempts + 1
            /\ IF retryCount < maxRetries
                 THEN /\ cisPc' = "backoff"
                      /\ UNCHANGED <<retryCount, attachRequests, deleteRequests>>
                 ELSE CisLoopHead(firewallAttached, retryCount)
            /\ UNCHANGED provFirewall
       [] resp = "ackApplied" ->
            /\ provFirewall' = provFirewall \cup ({instanceId} \cap provInstances)
            /\ cisPc' = "settle"
            /\ UNCHANGED <<retryCount, attachRequests, deleteRequests, failedAttempts>>
       [] resp = "ackNotApplied" ->
            /\ cisPc' = "settle"
            /\ UNCHANGED <<provFirewall, retryCount, attachRequests, deleteRequests,
                           failedAttempts>>
  /\ UNCHANGED <<instanceId, firewallAttached, cisResult, provInstances,
                 createRequests, created, verified>>

\* The 3 s settle wait ends and the verifying getInstance is sent.
CisSettleElapsed ==
  /\ cisPc = "settle"
  /\ cisPc' = "verify"
  /\ UNCHANGED <<instanceId, firewallAttached, retryCount, cisResult,
                 provInstances, provFirewall, createRequests, attachRequests,
                 deleteRequests, created, verified, failedAttempts>>

\* The verifying getInstance resolves (firewall_group_id as the provider has
\* it) or rejects.  A match leaves the loop; a mismatch waits 5 s; a
\* rejection lands in the catch (10 s wait when attempts remain).
CisVerifyReturn(ok) ==
  /\ cisPc = "verify"
  /\ LET match == ok /\ instanceId \in provFirewall IN
       /\ firewallAttached' = match
       /\ verified' = IF match THEN verified \cup {instanceId} ELSE verified
       /\ failedAttempts' = IF match THEN failedAttempts ELSE failedAttempts + 1
       /\ IF match \/ (~ok /\ ~(retryCount < maxRetries))
            THEN CisLoopHead(match, retryCount)
            ELSE /\ cisPc' = "backoff"
                 /\ UNCHANGED <<retryCount, attachRequests, deleteRequests>>
  /\ UNCHANGED <<instanceId, cisResult, provInstances, provFirewall,
                 createRequests, created>>

\* The 5 s or 10 s wait ends and the loop test runs.
CisBackoffElapsed ==
  /\ cisPc = "backoff"
  /\ CisLoopHead(firewallAttached, retryCount)
  /\ UNCHANGED <<instanceId, firewallAttached, cisResult, provInstances,
                 provFirewall, createRequests, created, verified, failedAttempts>>

\* deleteInstance of the unprotected instance resolves or rejects; either
\* way the security failure is thrown.
CisTeardownReturn(ok) ==
  /\ cisPc = "teardown"
  /\ provInstances' = IF ok THEN provInstances \ {instanceId} ELSE provInstances
  /\ provFirewall' = IF ok THEN provFirewall \ {instanceId} ELSE provFirewall
  /\ CisThrow("SecurityFailure")
  /\ UNCHANGED <<instanceId, firewallAttached, retryCount, createRequests,
                 attachRequests, deleteRequests, created, verified, failedAttempts>>

\* a DDoS update whose rejection fails the call
CisDdosReturnFatal(ok) ==
  /\ cisPc = "ddos"
  /\ IF ok THEN cisPc' = "ddosSettle" /\ UNCHANGED cisResult
     ELSE CisThrow("VultrApiError")
  /\ UNCHANGED <<instanceId, firewallAttached, retryCount, provInstances,
                 provFirewall, createRequests, attachRequests, deleteRequests,
                 created, verified, failedAttempts>>

\* updateInstance(ddos_protection) resolves (then the 2 s wait) or rejects
\* (non-fatal: the instance is returned).  ddos: what the function logged
\* about the protection.
CisDdosReturn(ok) ==
  /\ cisPc = "ddos"
  /\ IF ok THEN cisPc' = "ddosSettle" /\ UNCHANGED cisResult
     ELSE /\ cisPc' = "returned"
          /\ cisResult' = [outcome |-> "returned", instance |-> instanceId,
                           ddos |-> "updateRejected"]
  /\ UNCHANGED <<instanceId, firewallAttached, retryCount, provInstances,
                 provFirewall, createRequests, attachRequests, deleteRequests,
                 created, verified, failedAttempts>>

\* The 2 s wait ends and the DDoS check getInstance is sent.
CisDdosSettleElapsed ==
  /\ cisPc = "ddosSettle"
  /\ cisPc' = "ddosVerify"
  /\ UNCHANGED <<instanceId, firewallAttached, retryCount, cisResult,
                 provInstances, provFirewall, createRequests, attachRequests,
                 deleteRequests, created, verified, failedAttempts>>

\* The DDoS check resolves (feature listed or not) or rejects: all return
\* response.instance.
CisDdosVerifyReturn(resp) ==
  /\ cisPc = "ddosVerify"
  /\ resp \in {"enabled", "notEnabled", "rejected"}
  /\ cisPc' = "returned"
  /\ cisResult' = [outcome |-> "returned", instance |-> instanceId, ddos |-> resp]
  /\ UNCHANGED <<instanceId, firewallAttached, retryCount, provInstances,
                 provFirewall, createRequests, attachRequests, deleteRequests,
                 created, verified, failedAttempts>>

CisInit ==
  /\ cisPc = "idle"
  /\ instanceId = Null
  /\ firewallAttached = FALSE
  /\ retryCount = 0
  /\ cisResult = [outcome |-> "none"]
  /\ provInstances = {}
  /\ provFirewall = {}
  /\ createRequests = 0
  /\ attachRequests = 0
  /\ deleteRequests = 0
  /\ created = {}
  /\ verified = {}
  /\ failedAttempts = 0

\* a well-formed firewall group id in the environment, and a snapshot id
\* that is among the provider's snapshots
CisArgsValid == firewallGroupId = "uuid" /\ snapshotId = "listed"

(***************************************************************************)
(* updatePanel                                                             *)
(***************************************************************************)

MaxCalls == 3      \* updatePanel invocations in flight at once
MaxExtCalls == 4   \* trigger calls in one behaviour

Calls == 1..MaxCalls

\* updatePanel(interaction), updatePanel(null, channel) and updatePanel():
\* the /panel command, startup restoration, the periodic refresh, the delayed
\* follow-ups of the handlers, and the call queued by the finally block.
PanelTriggers == {"interaction", "channel", "periodic", "followup"}

FreeCall == [pc |-> "free", kind |-> "none", ord |-> 0]
PanelFull == [messageId |-> TRUE, channelId |-> TRUE]
PanelEmpty == [messageId |-> FALSE, channelId |-> FALSE]

HasFreeCall == \E c \in Calls : up[c].pc = "free"
MinFreeCall == CHOOSE c \in Calls :
                 up[c].pc = "free" /\ \A d \in Calls : up[d].pc = "free" => c <= d

InRender(c) == up[c].pc \in {"generate", "write", "errorReply"}
FirstRenderInProgress == \E c \in Calls : InRender(c) /\ up[c].ord = 1

\* if (panelData.messageId && panelData.channelId) {...}: the stored panel is
\* edited, or found deleted and recreated, or the stored ids are cleared and
\* control falls through (index.js:2226-2405).
StoredPanelOutcomes(pd) ==
  IF pd.messageId /\ pd.channelId
    THEN {[pd |-> pd, path |-> "return"], [pd |-> PanelFull, path |-> "return"],
          [pd |-> PanelEmpty, path |-> "fall"], [pd |-> pd, path |-> "fall"]}
    ELSE {[pd |-> pd, path |-> "fall"]}

\* The code after the stored-panel block (index.js:2407-2437): send to the
\* given channel, or recreate in the stored channel.
FallThroughOutcomes(kind, pd) ==
  IF kind = "channel"
    THEN {[pd |-> PanelFull, threw |-> FALSE], [pd |-> pd, threw |-> TRUE]}
  ELSE IF pd.channelId /\ ~pd.messageId
    THEN {[pd |-> PanelFull, threw |-> FALSE], [pd |-> PanelEmpty, threw |-> FALSE],
          [pd |-> pd, threw |-> FALSE]}
  ELSE {[pd |-> pd, threw |-> FALSE]}

\* What the writes of one render leave in panelData, and whether the try
\* block threw (index.js:2186-2437).
PanelWriteOutcomes(kind, pd) ==
  IF kind = "interaction"
    THEN {[pd |-> PanelFull, threw |-> FALSE], [pd |-> pd, threw |-> TRUE]}
    ELSE UNION {IF o.path = "return" THEN {[pd |-> o.pd, threw |-> FALSE]}
                ELSE FallThroughOutcomes(kind, o.pd) : o \in StoredPanelOutcomes(pd)}

\* Whether the render awaits any Discord write after the content is built.
NeedsWrite(kind, pd) ==
  \/ kind \in {"interaction", "channel"}
  \/ pd.channelId

\* if (panelUpdateInProgress) { if (!interaction) {...} await 100 ms ... }
BlockedCallWaits(kind) == kind = "interaction"

RetryIgnoresLock(inProgress) == FALSE

\* After the 100 ms wait: if (panelUpdateInProgress) return null.
StillBlockedAfterWait(inProgress) == inProgress

\* panelUpdateInProgress = true; pendingPanelUpdate = false; try {...  up to
\* the await of generatePanelContent.
EnterRender(c, kind) ==
  /\ panelUpdateInProgress' = TRUE
  /\ pendingPanelUpdate' = FALSE
  /\ renderStarts' = renderStarts + 1
  /\ up' = [up EXCEPT ![c] = [pc |-> "generate", kind |-> kind,
                              ord |-> renderStarts + 1]]
  /\ unserved' = 0

\* A call is made by a trigger.  Not blocked: it enters the render section.
\* Blocked without interaction: it sets the pending flag and returns.
\* Blocked with interaction: it starts the 100 ms wait.
PanelCall(kind) ==
  /\ IF ~panelUpdateInProgress
       THEN /\ HasFreeCall
            /\ EnterRender(MinFreeCall, kind)
       ELSE IF BlockedCallWaits(kind)
         THEN /\ HasFreeCall
              /\ up' = [up EXCEPT ![MinFreeCall] =
                          [pc |-> "wait100", kind |-> kind, ord |-> 0]]
              /\ unserved' = unserved + 1
              /\ UNCHANGED <<panelUpdateInProgress, pendingPanelUpdate, renderStarts>>
         ELSE /\ pendingPanelUpdate' = TRUE
              /\ unserved' = unserved + 1
              /\ UNCHANGED <<panelUpdateInProgress, up, renderStarts>>

\* The /panel command, a delayed follow-up, or a tick of the periodic refresh
\* (which calls only if panelData.channelId is set).
TriggerCall(kind) ==
  /\ kind \in {"interaction", "followup", "periodic"}
  /\ extCalls < MaxExtCalls
  /\ kind = "periodic" => (periodicOn /\ panelData.channelId)
  /\ PanelCall(kind)
  /\ extCalls' = extCalls + 1
  /\ callsDuringFirst' = IF FirstRenderInProgress THEN callsDuringFirst + 1
                         ELSE callsDuringFirst
  /\ lateCalls' = IF renderStarts >= 1 /\ ~FirstRenderInProgress THEN lateCalls + 1
                  ELSE lateCalls
  /\ UNCHANGED <<panelData, queuedTimers, periodicOn>>

\* Startup restoration in the ready handler (index.js:3228-3262): with stored
\* ids and the channel found it awaits updatePanel(null, channel); the
\* periodic refresh is installed after that call has returned.
RestoreCall(found) ==
  /\ ~periodicOn
  /\ \A c \in Calls : up[c].kind # "channel"
  /\ IF panelData.messageId /\ panelData.channelId /\ found
       THEN /\ extCalls < MaxExtCalls
            /\ PanelCall("channel")
            /\ extCalls' = extCalls + 1
            /\ periodicOn' = panelUpdateInProgress
            /\ callsDuringFirst' = IF FirstRenderInProgress THEN callsDuringFirst + 1
                                   ELSE callsDuringFirst
            /\ lateCalls' = IF renderStarts >= 1 /\ ~FirstRenderInProgress
                              THEN lateCalls + 1 ELSE lateCalls
       ELSE /\ periodicOn' = TRUE
            /\ UNCHANGED <<panelUpdateInProgress, pendingPanelUpdate, up, extCalls,
                           renderStarts, callsDuringFirst, lateCalls, unserved>>
  /\ UNCHANGED <<panelData, queuedTimers>>

\* The 100 ms wait of a blocked interaction call ends.
PanelWaitElapsed(c) ==
  /\ up[c].pc = "wait100"
  /\ IF StillBlockedAfterWait(panelUpdateInProgress)
       THEN /\ up' = [up EXCEPT ![c] = FreeCall]
            /\ UNCHANGED <<panelUpdateInProgress, pendingPanelUpdate, renderStarts,
                           unserved>>
       ELSE EnterRender(c, up[c].kind)
  /\ UNCHANGED <<panelData, queuedTimers, periodicOn, extCalls, callsDuringFirst,
                 lateCalls>>

\* finally { panelUpdateInProgress = false; if (pendingPanelUpdate)
\* setTimeout(updatePanel, 100) }, and the return to the caller.
PanelFinally(c) ==
  /\ panelUpdateInProgress' = FALSE
  /\ queuedTimers' = IF pendingPanelUpdate THEN queuedTimers + 1 ELSE queuedTimers
  /\ up' = [up EXCEPT ![c] = FreeCall]
  /\ periodicOn' = (periodicOn \/ up[c].kind = "channel")
  /\ UNCHANGED <<pendingPanelUpdate, extCalls, renderStarts, callsDuringFirst,
                 lateCalls, unserved>>

\* generatePanelContent / generatePanelComponents resolve or reject.
PanelGenerated(c, ok) ==
  /\ up[c].pc = "generate"
  /\ IF ok /\ NeedsWrite(up[c].kind, panelData)
       THEN /\ up' = [up EXCEPT ![c].pc = "write"]
            /\ UNCHANGED <<panelUpdateInProgress, pendingPanelUpdate, queuedTimers,
                           periodicOn, extCalls, renderStarts, callsDuringFirst,
                           lateCalls, unserved>>
     ELSE IF ~ok /\ up[c].kind = "interaction"
       THEN /\ up' = [up EXCEPT ![c].pc = "errorReply"]
            /\ UNCHANGED <<panelUpdateInProgress, pendingPanelUpdate, queuedTimers,
                           periodicOn, extCalls, renderStarts, callsDuringFirst,
                           lateCalls, unserved>>
     ELSE PanelFinally(c)
  /\ UNCHANGED panelData

\* The Discord writes of the render resolve or reject.
PanelWritten(c, o) ==
  /\ up[c].pc = "write"
  /\ o \in PanelWriteOutcomes(up[c].kind, panelData)
  /\ panelData' = o.pd
  /\ IF o.threw /\ up[c].kind = "interaction"
       THEN /\ up' = [up EXCEPT ![c].pc = "errorReply"]
            /\ UNCHANGED <<panelUpdateInProgress, pendingPanelUpdate, queuedTimers,
                           periodicOn, extCalls, renderStarts, callsDuringFirst,
                           lateCalls, unserved>>
       ELSE PanelFinally(c)

\* The error reply of the outer catch resolves or rejects.
PanelErrorReplied(c) ==
  /\ up[c].pc = "errorReply"
  /\ PanelFinally(c)
  /\ UNCHANGED panelData

\* The timer set by the finally block fires: updatePanel().
QueuedTimerFires ==
  /\ queuedTimers > 0
  /\ queuedTimers' = queuedTimers - 1
  /\ PanelCall("queued")
  /\ UNCHANGED <<panelData, periodicOn, extCalls, callsDuringFirst, lateCalls>>

PanelInit ==
  /\ panelUpdateInProgress = FALSE
  /\ pendingPanelUpdate = FALSE
  /\ panelData \in {PanelEmpty, PanelFull, [messageId |-> FALSE, channelId |-> TRUE]}
  /\ up = [c \in Calls |-> FreeCall]
  /\ queuedTimers = 0
  /\ periodicOn = FALSE
  /\ extCalls = 0
  /\ renderStarts = 0
  /\ callsDuringFirst = 0
  /\ lateCalls = 0
  /\ unserved = 0

\* No updatePanel invocation is running or scheduled.
PanelIdle ==
  /\ \A c \in Calls : up[c].pc = "free"
  /\ queuedTimers = 0

\* Idle, and the periodic refresh has nothing to refresh: no render starts
\* unless a new trigger calls.
PanelQuiescent ==
  /\ PanelIdle
  /\ periodicOn
  /\ ~panelData.channelId


CisDone == cisPc \in {"returned", "thrown"}

(***************************************************************************)
(* instanceState (index.js:91-159) and the self-destruct timer objects     *)
(***************************************************************************)

MaxSweeps == 2     \* checkTimers runs in flight at once
MaxTimers == 2     \* selfDestructTimer objects allocated in one behaviour
MaxCoins == 1      \* extension requests in one behaviour
MaxLists == 1      \* /list reconciliations in one behaviour
MaxSent == 3       \* direct messages delivered in one behaviour
MaxCommands == 1   \* user commands other than create in one behaviour
MaxOverrun == 0    \* minutes the clock runs on past an expiry
PollQuantum == 15  \* minutes that pass at once while a poller waits
MaxAttempts == 3   \* polls of the destruction poller that are counted

SELF_DESTRUCT_INITIAL_MINUTES == 180
SELF_DESTRUCT_COIN_MINUTES == 180

Ids == {"i1"}
IdOrder == <<"i1">>       \* the order in which the provider lists instances
Sweeps == 1..MaxSweeps

\* a record without selfDestructTimer, or with selfDestructTimer: null
NoTimer == 0

\* metadata = {}
NoMetadata == [f \in {} |-> Null]

Range(s) == {s[i] : i \in DOMAIN s}

\* { ...a, ...b }
Spread(a, b) == [f \in (DOMAIN a) \cup (DOMAIN b) |-> IF f \in DOMAIN b THEN b[f] ELSE a[f]]

\* trackedInstance.selfDestructTimer, undefined and null both read as NoTimer
TimerOf(rec) == IF "selfDestructTimer" \in DOMAIN rec THEN rec.selfDestructTimer ELSE NoTimer

\* this.instances.findIndex(i => i.id === instanceId), 0 for -1
findIndex(insts, iid) ==
  IF \E i \in DOMAIN insts : insts[i].id = iid
  THEN CHOOSE i \in DOMAIN insts :
         /\ insts[i].id = iid
         /\ \A j \in DOMAIN insts : insts[j].id = iid => i <= j
  ELSE 0

\* a trackInstance that pushes a new record without looking for the id
trackInstanceAlwaysPush(insts, iid, userId, username, status, metadata, timestamp) ==
  Append(insts,
         [id |-> iid,
          creator |-> [id |-> userId, username |-> username],
          createdAt |-> timestamp,
          status |-> IF status = Null THEN "creating" ELSE status,
          ip |-> IF "ip" \in DOMAIN metadata /\ metadata.ip # "" THEN metadata.ip ELSE Null,
          name |-> IF "name" \in DOMAIN metadata /\ metadata.name # ""
                   THEN metadata.name ELSE username \o "'s Server"])

\* lastUpdated, which both functions stamp and nothing reads back, is left out
\* of the records.
trackInstance(insts, iid, userId, username, status, metadata, timestamp) ==
  LET existingIndex == findIndex(insts, iid)
      instanceData ==
        [id |-> iid,
         creator |-> [id |-> userId, username |-> username],
         createdAt |-> timestamp,
         status |-> IF status = Null THEN "creating" ELSE status,
         ip |-> IF "ip" \in DOMAIN metadata /\ metadata.ip # "" THEN metadata.ip ELSE Null,
         name |-> IF "name" \in DOMAIN metadata /\ metadata.name # ""
                  THEN metadata.name ELSE username \o "'s Server"]
  IN IF existingIndex > 0
     THEN [insts EXCEPT ![existingIndex] = Spread(@, instanceData)]
     ELSE Append(insts, instanceData)

updateInstance(insts, iid, status, metadata, timestamp) ==
  LET instanceIndex == findIndex(insts, iid)
  IN IF instanceIndex > 0
     THEN [insts EXCEPT ![instanceIndex] =
             Spread(Spread(@, [status |-> status]), metadata)]
     ELSE insts

\* a filter that drops destroyed records only
IsActiveKeepsTerminated(rec) == rec.status # "destroyed"

IsActive(rec) == rec.status # "terminated" /\ rec.status # "destroyed"

getActiveInstances(insts) == SelectSeq(insts, IsActive)

IsTracked(insts, iid) == findIndex(insts, iid) > 0

\* instanceState.getInstance(instanceId), asked only when IsTracked
getTracked(insts, iid) == insts[findIndex(insts, iid)]

HasTimer(insts, iid) ==
  /\ IsTracked(insts, iid)
  /\ TimerOf(getTracked(insts, iid)) # NoTimer

StatusIs(insts, iid, status) ==
  /\ IsTracked(insts, iid)
  /\ getTracked(insts, iid).status = status

\* The registry becomes newInstances; the history variables follow it.
SetRegistry(newInstances) ==
  /\ instances' = newInstances
  /\ timerSets' = [id \in Ids |->
                     IF ~HasTimer(instances, id) /\ HasTimer(newInstances, id)
                     THEN timerSets[id] + 1 ELSE timerSets[id]]
  /\ everRunning' = everRunning \cup {id \in Ids : StatusIs(newInstances, id, "running")}
  /\ everDestroyed' = everDestroyed \cup {id \in Ids : StatusIs(newInstances, id, "destroyed")}

\* the object literal of initializeSelfDestructTimer
NewTimer(t) ==
  [expiresAt |-> t + SELF_DESTRUCT_INITIAL_MINUTES,
   initialDuration |-> SELF_DESTRUCT_INITIAL_MINUTES,
   extendedCount |-> 0,
   warningsSent |-> <<>>]

\* initializeSelfDestructTimer: the registry and the heap it leaves behind
TimerInitNeeded(insts, iid) ==
  /\ IsTracked(insts, iid)
  /\ TimerOf(getTracked(insts, iid)) = NoTimer

initializeSelfDestructTimer(insts, heap, iid, t) ==
  IF TimerInitNeeded(insts, iid)
  THEN [instances |-> updateInstance(insts, iid, getTracked(insts, iid).status,
                                     [selfDestructTimer |-> Len(heap) + 1], t),
        timers |-> Append(heap, NewTimer(t))]
  ELSE [instances |-> insts, timers |-> heap]

(***************************************************************************)
(* Calls of the instanceState functions as their callers make them, for    *)
(* the claims about the registry itself                                    *)
(***************************************************************************)

\* instance ids the callers hand to instanceState
TrackedIds == {"i1", "i2"}

\* timers started in one behaviour of the registry on its own
MaxRegistryTimers == 1

\* instanceState.trackInstance(id, userId, username, status, {ip, name})
TrackInstanceCall(id, status, metadata) ==
  /\ SetRegistry(trackInstance(instances, id, "u1", "user1", status, metadata, now))
  /\ UNCHANGED <<now, swept, booted, timers, prov, sweeps, statusPoll, createCmd,
                 destroyCmd, destroyPoll, powerCmd, coins, coinReply, lists, sent>>

\* instanceState.updateInstance(id, status, metadata): the callers pass no
\* metadata, {ip}, or {selfDestructTimer: null}
UpdateInstanceCall(id, status, metadata) ==
  /\ SetRegistry(updateInstance(instances, id, status, metadata, now))
  /\ UNCHANGED <<now, swept, booted, timers, prov, sweeps, statusPoll, createCmd,
                 destroyCmd, destroyPoll, powerCmd, coins, coinReply, lists, sent>>

\* await initializeSelfDestructTimer(id)
InitializeTimerCall(id) ==
  /\ TimerInitNeeded(instances, id)
  /\ Len(timers) < MaxTimers
  /\ LET after == initializeSelfDestructTimer(instances, timers, id, now)
     IN /\ SetRegistry(after.instances)
        /\ timers' = after.timers
  /\ UNCHANGED <<now, swept, booted, prov, sweeps, statusPoll, createCmd,
                 destroyCmd, destroyPoll, powerCmd, coins, coinReply, lists, sent>>

(***************************************************************************)
(* The provider's side of one instance                                     *)
(***************************************************************************)

\* refused: the provider has answered a delete for the instance with 400
ProvAbsent == [exists |-> FALSE, deleting |-> FALSE, refused |-> FALSE, status |-> "pending",
               power |-> "stopped", ip |-> "0.0.0.0"]

\* an instance that was deleted; its id is not handed out again
ProvDeleted == [ProvAbsent EXCEPT !.deleting = TRUE]

\* what create-instance answers with: pending, no address yet
ProvCreated(power) ==
  [exists |-> TRUE, deleting |-> FALSE, refused |-> FALSE, status |-> "pending", power |-> power,
   ip |-> "0.0.0.0"]

ProvRunning ==
  [exists |-> TRUE, deleting |-> FALSE, refused |-> FALSE, status |-> "active", power |-> "running",
   ip |-> "ip1"]

\* getInstance (index.js:595-621): the instance, a not-found error, an answer
\* without an instance, or another error
GetInstanceOutcomes(id) ==
  IF prov[id].exists THEN {"instance", "error"} ELSE {"gone404", "goneEmpty", "error"}

\* deleteInstance: accepted only for an instance that exists
DeleteOutcomes(id) ==
  IF prov[id].exists THEN {"accepted", "lingers", "rejected400", "error"} ELSE {"error"}

\* an accepted delete removes the instance at once, or leaves it listed until
\* the provider has finished ("lingers")
ProvAfterDelete(id, outcome) ==
  IF outcome = "accepted" THEN [prov EXCEPT ![id] = ProvDeleted]
  ELSE IF outcome = "lingers" THEN [prov EXCEPT ![id].deleting = TRUE]
  ELSE IF outcome = "rejected400" THEN [prov EXCEPT ![id].refused = TRUE]
  ELSE prov

\* The instance makes progress on its own: it becomes active, powers up,
\* is given its address, or disappears when a deletion that was accepted
\* completes.
ProviderStep(id, what) ==
  /\ prov[id].exists
  /\ \/ what = "active" /\ prov[id].status = "pending"
        /\ prov' = [prov EXCEPT ![id].status = "active"]
     \/ what = "running" /\ prov[id].power = "stopped"
        /\ prov' = [prov EXCEPT ![id].power = "running"]
     \/ what = "address" /\ prov[id].ip = "0.0.0.0"
        /\ prov' = [prov EXCEPT ![id].ip = "ip1"]
     \/ what = "vanish" /\ prov[id].deleting
        /\ prov' = [prov EXCEPT ![id] = ProvDeleted]
  /\ UNCHANGED <<now, swept, booted, regVars, timers, sweeps, statusPoll, createCmd,
                 destroyCmd, destroyPoll, powerCmd, coins, coinReply, lists, sent>>
(***************************************************************************)
(* The clock                                                               *)
(***************************************************************************)

StatusPollCeiling == 30    \* maxWaitTime of startInstanceStatusPolling, minutes
DestroyPollCeiling == 15   \* maxWaitTime of startInstanceDestructionPolling, minutes

\* answer: what the existence check of the run was last answered with
IdleSweep == [pc |-> "idle", list |-> <<>>, idx |-> 0, timer |-> NoTimer, minutes |-> 0,
              answer |-> Null]

\* Math.floor(remainingMs / 60000) on a clock that counts whole minutes
remainingMinutes(heap, timer, t) == heap[timer].expiresAt - t

WarningDue(heap, timer, t, minutes) ==
  LET remaining == remainingMinutes(heap, timer, t)
      warningsSent == Range(heap[timer].warningsSent)
  IN IF minutes = 10
     THEN remaining <= 10 /\ remaining > 5 /\ "10min" \notin warningsSent
     ELSE remaining <= 5 /\ "5min" \notin warningsSent

\* The for loop of checkTimers from element i on, up to its next await: the
\* run is left suspended at that await, or finished.
RECURSIVE checkTimersFrom(_, _, _, _)
checkTimersFrom(list, i, heap, t) ==
  IF i > Len(list) THEN IdleSweep
  ELSE LET timer == TimerOf(list[i])
       IN IF timer = NoTimer THEN checkTimersFrom(list, i + 1, heap, t)
          ELSE IF heap[timer].expiresAt - t <= 0
               THEN [pc |-> "exists", list |-> list, idx |-> i, timer |-> timer, minutes |-> 0,
                     answer |-> Null]
          ELSE IF WarningDue(heap, timer, t, 10)
               THEN [pc |-> "warnFetch", list |-> list, idx |-> i, timer |-> timer, minutes |-> 10,
                     answer |-> Null]
          ELSE IF WarningDue(heap, timer, t, 5)
               THEN [pc |-> "warnFetch", list |-> list, idx |-> i, timer |-> timer, minutes |-> 5,
                     answer |-> Null]
          ELSE checkTimersFrom(list, i + 1, heap, t)

\* a checkTimers run started now would reach an await
SweepHasWork == checkTimersFrom(getActiveInstances(instances), 1, timers, now).pc # "idle"

FreeSweep == \E s \in Sweeps : sweeps[s].pc = "idle"

\* setTimeout callbacks of the pollers are due within the minute
PollTimerPending == statusPoll.pc = "timer" \/ destroyPoll.pc = "timer"

\* setInterval(checkTimers, 30000): no minute passes without a run starting
SweepOverdue == booted /\ ~swept /\ SweepHasWork /\ FreeSweep

\* a handler or poller is suspended at an await or on a timer
HandlerInFlight ==
  \/ statusPoll.pc \notin {"off", "done"}
  \/ destroyPoll.pc \notin {"off", "done"}
  \/ createCmd.pc \notin {"off", "done"}
  \/ destroyCmd.pc \notin {"off", "done"}
  \/ powerCmd.pc \notin {"off", "done"}

\* the timers a sweep can still act on: those of active records and those a
\* suspended run holds
LiveTimers ==
  ({TimerOf(instances[i]) : i \in {j \in DOMAIN instances : IsActive(instances[j])}}
     \cup {sweeps[s].timer : s \in Sweeps}) \ {NoTimer}

NearestExpiry ==
  CHOOSE e \in {timers[t].expiresAt : t \in LiveTimers} :
    \A t \in LiveTimers : e <= timers[t].expiresAt

\* The first minute after t at which checkTimers takes another branch for
\* this timer: the 10-minute window opens, the 5-minute window opens, the
\* timer expires; past the expiry, every minute.
NextBoundary(heap, timer, t) ==
  LET remaining == remainingMinutes(heap, timer, t)
  IN IF remaining > 10 THEN heap[timer].expiresAt - 10
     ELSE IF remaining > 5 THEN heap[timer].expiresAt - 5
     ELSE IF remaining > 0 THEN heap[timer].expiresAt
     ELSE t + 1

NextBoundaryTime ==
  CHOOSE w \in {NextBoundary(timers, t, now) : t \in LiveTimers} :
    \A t \in LiveTimers : w <= NextBoundary(timers, t, now)

\* Time passes up to the next minute at which a checkTimers run can behave
\* differently; a run that was due in the meantime has started.
Tick ==
  /\ ~HandlerInFlight
  /\ ~SweepOverdue
  /\ LiveTimers # {}
  /\ NextBoundaryTime <= NearestExpiry + MaxOverrun
  /\ now' = NextBoundaryTime
  /\ swept' = FALSE
  /\ UNCHANGED <<booted, regVars, timers, prov, sweeps, statusPoll, createCmd,
                 destroyCmd, destroyPoll, powerCmd, coins, coinReply, lists, sent>>

\* Time passes while a poller is waiting for an answer.
PollTick ==
  /\ \/ statusPoll.pc \notin {"off", "done"} /\ now - statusPoll.startTime <= StatusPollCeiling
     \/ destroyPoll.pc \notin {"off", "done"} /\ now - destroyPoll.startTime <= DestroyPollCeiling
  /\ ~PollTimerPending
  /\ now' = now + PollQuantum
  /\ swept' = FALSE
  /\ UNCHANGED <<booted, regVars, timers, prov, sweeps, statusPoll, createCmd,
                 destroyCmd, destroyPoll, powerCmd, coins, coinReply, lists, sent>>

(***************************************************************************)
(* startSelfDestructPolling.checkTimers (index.js:1706-1799)               *)
(***************************************************************************)

SweepRec(s) == sweeps[s].list[sweeps[s].idx]

\* the run goes on with the next element of its list
SweepContinue(s, heap) ==
  sweeps' = [sweeps EXCEPT ![s] = checkTimersFrom(sweeps[s].list, sweeps[s].idx + 1, heap, now)]

SweepStart(s) ==
  /\ booted
  /\ sweeps[s].pc = "idle"
  /\ \A r \in Sweeps : sweeps[r].pc = "idle" => s <= r
  /\ SweepHasWork
  /\ sweeps' = [sweeps EXCEPT ![s] = checkTimersFrom(getActiveInstances(instances), 1, timers, now)]
  /\ swept' = TRUE
  /\ UNCHANGED <<now, booted, regVars, timers, prov, statusPoll, createCmd,
                 destroyCmd, destroyPoll, powerCmd, coins, coinReply, lists, sent>>

\* the run goes on with the next element after its existence check was
\* answered with resp
SweepAnswered(s, resp) ==
  sweeps' = [sweeps EXCEPT ![s] =
               [checkTimersFrom(sweeps[s].list, sweeps[s].idx + 1, timers, now)
                  EXCEPT !.answer = resp]]

\* await getInstance(trackedInstance.id) of the expiry branch returns
SweepExistsReturn(s, resp) ==
  /\ sweeps[s].pc = "exists"
  /\ resp \in GetInstanceOutcomes(SweepRec(s).id)
  /\ IF resp = "instance"
     THEN /\ sweeps' = [sweeps EXCEPT ![s].pc = "delete", ![s].answer = resp]
          /\ UNCHANGED regVars
     ELSE IF resp = "goneEmpty"
     THEN /\ SetRegistry(updateInstance(instances, SweepRec(s).id, "destroyed",
                                        [selfDestructTimer |-> NoTimer], now))
          /\ SweepAnswered(s, resp)
     ELSE /\ SweepAnswered(s, resp)
          /\ UNCHANGED regVars
  /\ UNCHANGED <<now, swept, booted, timers, prov, statusPoll, createCmd,
                 destroyCmd, destroyPoll, powerCmd, coins, coinReply, lists, sent>>

\* an expiry branch that marks the record destroyed whatever the delete
\* answered
SweepDeleteReturnMarksAnyway(s, resp) ==
  /\ sweeps[s].pc = "delete"
  /\ resp \in DeleteOutcomes(SweepRec(s).id)
  /\ prov' = ProvAfterDelete(SweepRec(s).id, resp)
  /\ SetRegistry(updateInstance(instances, SweepRec(s).id, "destroyed",
                                [selfDestructTimer |-> NoTimer], now))
  /\ IF resp \in {"accepted", "lingers"}
     THEN sweeps' = [sweeps EXCEPT ![s].pc = "expiryFetch"]
     ELSE SweepContinue(s, timers)
  /\ UNCHANGED <<now, swept, booted, timers, statusPoll, createCmd,
                 destroyCmd, destroyPoll, powerCmd, coins, coinReply, lists, sent>>

\* await vultr.instances.deleteInstance(...) of the expiry branch returns
SweepDeleteReturn(s, resp) ==
  /\ sweeps[s].pc = "delete"
  /\ resp \in DeleteOutcomes(SweepRec(s).id)
  /\ prov' = ProvAfterDelete(SweepRec(s).id, resp)
  /\ IF resp \in {"accepted", "lingers"}
     THEN /\ SetRegistry(updateInstance(instances, SweepRec(s).id, "destroyed",
                                        [selfDestructTimer |-> NoTimer], now))
          /\ sweeps' = [sweeps EXCEPT ![s].pc = "expiryFetch"]
     ELSE /\ SweepContinue(s, timers)
          /\ UNCHANGED regVars
  /\ UNCHANGED <<now, swept, booted, timers, statusPoll, createCmd,
                 destroyCmd, destroyPoll, powerCmd, coins, coinReply, lists, sent>>

\* await client.users.fetch(trackedInstance.creator.id) of the expiry branch
SweepExpiryFetchReturn(s, resp) ==
  /\ sweeps[s].pc = "expiryFetch"
  /\ IF resp = "user"
     THEN sweeps' = [sweeps EXCEPT ![s].pc = "expirySend"]
     ELSE SweepContinue(s, timers)
  /\ UNCHANGED <<now, swept, booted, regVars, timers, prov, statusPoll, createCmd,
                 destroyCmd, destroyPoll, powerCmd, coins, coinReply, lists, sent>>

\* await user.send(...) of the expiry branch
SweepExpirySendReturn(s, ok) ==
  /\ sweeps[s].pc = "expirySend"
  /\ ok => Len(sent) < MaxSent
  /\ sent' = IF ok THEN Append(sent, [id |-> SweepRec(s).id, kind |-> "expiry"]) ELSE sent
  /\ SweepContinue(s, timers)
  /\ UNCHANGED <<now, swept, booted, regVars, timers, prov, statusPoll, createCmd,
                 destroyCmd, destroyPoll, powerCmd, coins, coinReply, lists>>

WarningKind(minutes) == IF minutes = 10 THEN "10min" ELSE "5min"

\* After sendSelfDestructWarning has returned: timer.warningsSent.push(...),
\* updateInstance(id, trackedInstance.status, {selfDestructTimer: timer}),
\* both on the element and the timer object the run read when it started.
WarningRecorded(s) ==
  LET heap == [timers EXCEPT ![sweeps[s].timer].warningsSent =
                 Append(@, WarningKind(sweeps[s].minutes))]
  IN /\ timers' = heap
     /\ SetRegistry(updateInstance(instances, SweepRec(s).id, SweepRec(s).status,
                                   [selfDestructTimer |-> sweeps[s].timer], now))
     /\ SweepContinue(s, heap)

\* sendSelfDestructWarning: await client.users.fetch(creatorId) returns
SweepWarnFetchReturn(s, resp) ==
  /\ sweeps[s].pc = "warnFetch"
  /\ IF resp = "user" /\ HasTimer(instances, SweepRec(s).id)
     THEN /\ sweeps' = [sweeps EXCEPT ![s].pc = "warnSend"]
          /\ UNCHANGED <<regVars, timers>>
     ELSE WarningRecorded(s)
  /\ UNCHANGED <<now, swept, booted, prov, statusPoll, createCmd,
                 destroyCmd, destroyPoll, powerCmd, coins, coinReply, lists, sent>>

\* sendSelfDestructWarning: await user.send(...) returns
SweepWarnSendReturn(s, ok) ==
  /\ sweeps[s].pc = "warnSend"
  /\ ok => Len(sent) < MaxSent
  /\ sent' = IF ok
             THEN Append(sent, [id |-> SweepRec(s).id, kind |-> WarningKind(sweeps[s].minutes)])
             ELSE sent
  /\ WarningRecorded(s)
  /\ UNCHANGED <<now, swept, booted, prov, statusPoll, createCmd,
                 destroyCmd, destroyPoll, powerCmd, coins, coinReply, lists>>
(***************************************************************************)
(* The create flow after createInstanceFromSnapshot has returned           *)
(* (index.js:436-467, and the same steps at 2731-2760 and 2913-2943)       *)
(***************************************************************************)

\* user commands issued so far: extensions, reconciliations, destroy, start/stop
CommandsIssued ==
  coins + lists + (IF destroyCmd.pc = "off" THEN 0 ELSE 1) + (IF powerCmd.pc = "off" THEN 0 ELSE 1)

OffOp == [pc |-> "off", id |-> Null]
\* failures: failure messages the run has sent (timeout, API errors);
\* answer: what getInstance answered in the current poll
OffPoll == [pc |-> "off", id |-> Null, startTime |-> 0, failures |-> 0, answer |-> Null]
OffPower == [pc |-> "off", id |-> Null, target |-> Null]
OffDestroyPoll == [pc |-> "off", id |-> Null, startTime |-> 0, attempts |-> 0, rejected |-> 0,
                   failures |-> 0]

\* attempts++, counted up to MaxAttempts
CountUp(n) == IF n < MaxAttempts THEN n + 1 ELSE n

\* trackInstance(instance.id, user.id, user.username, instance.status || 'creating', ...)
\* and the await of the progress message
CreateTracked(id, power) ==
  /\ booted
  /\ createCmd.pc = "off"
  /\ prov[id] = ProvAbsent
  /\ ~IsTracked(instances, id)
  /\ prov' = [prov EXCEPT ![id] = ProvCreated(power)]
  /\ SetRegistry(trackInstance(instances, id, "u1", "user1", ProvCreated(power).status,
                               [ip |-> ProvCreated(power).ip, name |-> "srv", region |-> "dfw"],
                               now))
  /\ createCmd' = [pc |-> "msg", id |-> id]
  /\ UNCHANGED <<now, swept, booted, timers, sweeps, statusPoll,
                 destroyCmd, destroyPoll, powerCmd, coins, coinReply, lists, sent>>

\* the progress message was sent: startInstanceStatusPolling(...); or it
\* failed and the catch block ends the flow
CreateMsgReturn(ok) ==
  /\ createCmd.pc = "msg"
  /\ createCmd' = [createCmd EXCEPT !.pc = "done"]
  /\ statusPoll' = IF ok THEN [pc |-> "timer", id |-> createCmd.id, startTime |-> now, failures |-> 0,
                            answer |-> Null]
                   ELSE statusPoll
  /\ UNCHANGED <<now, swept, booted, regVars, timers, prov, sweeps,
                 destroyCmd, destroyPoll, powerCmd, coins, coinReply, lists, sent>>

(***************************************************************************)
(* startInstanceStatusPolling.pollStatus (index.js:1356-1483)              *)
(***************************************************************************)

\* a ready test that does not look at the address
IsReadyWithoutAddress(instance) ==
  /\ instance.status = "active"
  /\ instance.power = "running"

\* status=active, power_status=running, has real IP
IsReady(instance) ==
  /\ instance.status = "active"
  /\ instance.power = "running"
  /\ instance.ip # ""
  /\ instance.ip # "0.0.0.0"

\* a catch block that ends the run without a message once the ceiling is
\* reached
StatusPollCatchSilent ==
  IF now - statusPoll.startTime < StatusPollCeiling
  THEN [statusPoll EXCEPT !.pc = "timer"]
  ELSE [statusPoll EXCEPT !.pc = "done"]

\* a catch block that ends the run at the first error
StatusPollCatchGivesUp == [statusPoll EXCEPT !.pc = "done"]

\* the catch block of pollStatus
StatusPollCatch ==
  IF now - statusPoll.startTime < StatusPollCeiling
  THEN [statusPoll EXCEPT !.pc = "timer"]
  ELSE [statusPoll EXCEPT !.pc = "errorMsg", !.failures = @ + 1]

\* a poll that asks the provider without looking at the elapsed time
StatusPollTimerFiresNoCeiling ==
  /\ statusPoll.pc = "timer"
  /\ statusPoll' = [statusPoll EXCEPT !.pc = "getInstance", !.answer = Null]
  /\ UNCHANGED <<now, swept, booted, regVars, timers, prov, sweeps, createCmd,
                 destroyCmd, destroyPoll, powerCmd, coins, coinReply, lists, sent>>

\* setTimeout(pollStatus, ...) fires: the ceiling check, then
\* await getInstance(instanceId)
StatusPollTimerFires ==
  /\ statusPoll.pc = "timer"
  /\ statusPoll' = IF now - statusPoll.startTime > StatusPollCeiling
                   THEN [statusPoll EXCEPT !.pc = "timeoutMsg", !.failures = @ + 1,
                                           !.answer = Null]
                   ELSE [statusPoll EXCEPT !.pc = "getInstance", !.answer = Null]
  /\ UNCHANGED <<now, swept, booted, regVars, timers, prov, sweeps, createCmd,
                 destroyCmd, destroyPoll, powerCmd, coins, coinReply, lists, sent>>

\* a poller that sends the start command when it sees the instance active
\* and powered off
StatusPollGetReturnStarts(resp) ==
  /\ statusPoll.pc = "getInstance"
  /\ resp \in GetInstanceOutcomes(statusPoll.id)
  /\ IF resp = "instance"
     THEN /\ SetRegistry(updateInstance(instances, statusPoll.id, prov[statusPoll.id].power,
                                        [ip |-> prov[statusPoll.id].ip], now))
          /\ statusPoll' = IF IsReady(prov[statusPoll.id])
                           THEN [statusPoll EXCEPT !.pc = "dm", !.answer = resp]
                           ELSE [statusPoll EXCEPT !.pc = "progressMsg", !.answer = resp]
          /\ prov' = IF prov[statusPoll.id].status = "active" /\ prov[statusPoll.id].power = "stopped"
                     THEN [prov EXCEPT ![statusPoll.id].power = "running"]
                     ELSE prov
     ELSE /\ statusPoll' = IF resp = "goneEmpty"
                           THEN [statusPoll EXCEPT !.pc = "goneMsg", !.answer = resp]
                           ELSE [StatusPollCatch EXCEPT !.answer = resp]
          /\ UNCHANGED <<regVars, prov>>
  /\ UNCHANGED <<now, swept, booted, timers, sweeps, createCmd,
                 destroyCmd, destroyPoll, powerCmd, coins, coinReply, lists, sent>>

\* await getInstance(instanceId) returns
StatusPollGetReturn(resp) ==
  /\ statusPoll.pc = "getInstance"
  /\ resp \in GetInstanceOutcomes(statusPoll.id)
  /\ IF resp = "instance"
     THEN /\ SetRegistry(updateInstance(instances, statusPoll.id, prov[statusPoll.id].power,
                                        [ip |-> prov[statusPoll.id].ip], now))
          /\ statusPoll' = IF IsReady(prov[statusPoll.id])
                           THEN [statusPoll EXCEPT !.pc = "dm", !.answer = resp]
                           ELSE [statusPoll EXCEPT !.pc = "progressMsg", !.answer = resp]
     ELSE /\ statusPoll' = IF resp = "goneEmpty"
                           THEN [statusPoll EXCEPT !.pc = "goneMsg", !.answer = resp]
                           ELSE [StatusPollCatch EXCEPT !.answer = resp]
          /\ UNCHANGED regVars
  /\ UNCHANGED <<now, swept, booted, timers, prov, sweeps, createCmd,
                 destroyCmd, destroyPoll, powerCmd, coins, coinReply, lists, sent>>

\* await sendServerCreationDM(...) returns or throws (caught), then
\* await initializeSelfDestructTimer(instanceId) runs
StatusPollDmReturn(ok) ==
  /\ statusPoll.pc = "dm"
  /\ TimerInitNeeded(instances, statusPoll.id) => Len(timers) < MaxTimers
  /\ ok => Len(sent) < MaxSent
  /\ sent' = IF ok THEN Append(sent, [id |-> statusPoll.id, kind |-> "ready"]) ELSE sent
  /\ LET after == initializeSelfDestructTimer(instances, timers, statusPoll.id, now)
     IN /\ SetRegistry(after.instances)
        /\ timers' = after.timers
  /\ statusPoll' = [statusPoll EXCEPT !.pc = "finalMsg"]
  /\ UNCHANGED <<now, swept, booted, prov, sweeps, createCmd,
                 destroyCmd, destroyPoll, powerCmd, coins, coinReply, lists>>

\* await sendAutoCleanupFollowUp(...) of pollStatus returns or throws
StatusPollMsgReturn(ok) ==
  /\ statusPoll.pc \in {"finalMsg", "progressMsg", "goneMsg", "timeoutMsg", "errorMsg"}
  /\ statusPoll' =
       IF statusPoll.pc \in {"timeoutMsg", "errorMsg"} THEN [statusPoll EXCEPT !.pc = "done"]
       ELSE IF ~ok THEN StatusPollCatch
       ELSE IF statusPoll.pc = "progressMsg" THEN [statusPoll EXCEPT !.pc = "timer"]
       ELSE [statusPoll EXCEPT !.pc = "done"]
  /\ UNCHANGED <<now, swept, booted, regVars, timers, prov, sweeps, createCmd,
                 destroyCmd, destroyPoll, powerCmd, coins, coinReply, lists, sent>>

(***************************************************************************)
(* The destroy_server handler (index.js:3618-3713)                         *)
(***************************************************************************)

DestroyRequest(id) ==
  /\ booted
  /\ CommandsIssued < MaxCommands
  /\ destroyCmd.pc = "off"
  /\ destroyCmd' = [pc |-> "getInstance", id |-> id]
  /\ UNCHANGED <<now, swept, booted, regVars, timers, prov, sweeps, statusPoll, createCmd,
                 destroyPoll, powerCmd, coins, coinReply, lists, sent>>

\* await getInstance(destroyId) returns; the cost and the first reply follow
DestroyGetReturn(resp) ==
  /\ destroyCmd.pc = "getInstance"
  /\ resp \in GetInstanceOutcomes(destroyCmd.id)
  /\ IF resp = "instance"
     THEN /\ destroyCmd' = [destroyCmd EXCEPT !.pc = "delete"]
     ELSE /\ destroyCmd' = [destroyCmd EXCEPT !.pc = "done"]
  /\ UNCHANGED <<now, swept, booted, regVars, timers, prov, sweeps, statusPoll, createCmd,
                 destroyPoll, powerCmd, coins, coinReply, lists, sent>>

\* await vultr.instances.deleteInstance(...) returns or throws
DestroyDeleteReturn(resp) ==
  /\ destroyCmd.pc = "delete"
  /\ resp \in DeleteOutcomes(destroyCmd.id)
  /\ prov' = ProvAfterDelete(destroyCmd.id, resp)
  /\ destroyCmd' = [destroyCmd EXCEPT !.pc = "done"]
  /\ IF resp \in {"accepted", "lingers"}
     THEN /\ IF HasTimer(instances, destroyCmd.id)
             THEN SetRegistry(updateInstance(instances, destroyCmd.id,
                                             getTracked(instances, destroyCmd.id).status,
                                             [selfDestructTimer |-> NoTimer], now))
             ELSE UNCHANGED regVars
          /\ destroyPoll' = [pc |-> "timer", id |-> destroyCmd.id, startTime |-> now,
                              attempts |-> 0, rejected |-> 0, failures |-> 0]
     ELSE UNCHANGED <<regVars, destroyPoll>>
  /\ UNCHANGED <<now, swept, booted, timers, sweeps, statusPoll, createCmd,
                 powerCmd, coins, coinReply, lists, sent>>

(***************************************************************************)
(* startInstanceDestructionPolling.pollStatus (index.js:1595-1659)         *)
(***************************************************************************)

\* setTimeout(pollStatus, ...) fires: the ceiling check, then
\* await getInstance(instanceId)
DestroyPollTimerFires ==
  /\ destroyPoll.pc = "timer"
  /\ destroyPoll' = IF now - destroyPoll.startTime > DestroyPollCeiling
                    THEN [destroyPoll EXCEPT !.pc = "timeoutMsg", !.attempts = CountUp(@),
                                             !.failures = @ + 1]
                    ELSE [destroyPoll EXCEPT !.pc = "getInstance", !.attempts = CountUp(@)]
  /\ UNCHANGED <<now, swept, booted, regVars, timers, prov, sweeps, statusPoll, createCmd,
                 destroyCmd, powerCmd, coins, coinReply, lists, sent>>

\* await getInstance(instanceId) returns or throws
DestroyPollGetReturn(resp) ==
  /\ destroyPoll.pc = "getInstance"
  /\ resp \in GetInstanceOutcomes(destroyPoll.id)
  /\ IF resp = "instance"
     THEN /\ destroyPoll' = [destroyPoll EXCEPT !.pc = "delete"]
          /\ UNCHANGED regVars
     ELSE IF resp \in {"goneEmpty", "gone404"}
     THEN /\ SetRegistry(updateInstance(instances, destroyPoll.id, "destroyed",
                                        [selfDestructTimer |-> NoTimer], now))
          /\ destroyPoll' = [destroyPoll EXCEPT !.pc =
                               IF resp = "goneEmpty" THEN "doneMsg" ELSE "goneMsg"]
     ELSE /\ destroyPoll' = [destroyPoll EXCEPT !.pc = "timer"]
          /\ UNCHANGED regVars
  /\ UNCHANGED <<now, swept, booted, timers, prov, sweeps, statusPoll, createCmd,
                 destroyCmd, powerCmd, coins, coinReply, lists, sent>>

\* a poller that gives up when its delete is rejected with 400
DestroyPollDeleteReturnGivesUp(resp) ==
  /\ destroyPoll.pc = "delete"
  /\ resp \in DeleteOutcomes(destroyPoll.id)
  /\ prov' = ProvAfterDelete(destroyPoll.id, resp)
  /\ destroyPoll' = [destroyPoll EXCEPT !.pc = IF resp = "rejected400" THEN "done" ELSE "progressMsg",
                                        !.rejected = IF resp = "rejected400" THEN CountUp(@) ELSE @]
  /\ UNCHANGED <<now, swept, booted, regVars, timers, sweeps, statusPoll, createCmd,
                 destroyCmd, powerCmd, coins, coinReply, lists, sent>>

\* the retried deleteInstance returns or throws (caught), the progress message
\* is awaited next
DestroyPollDeleteReturn(resp) ==
  /\ destroyPoll.pc = "delete"
  /\ resp \in DeleteOutcomes(destroyPoll.id)
  /\ prov' = ProvAfterDelete(destroyPoll.id, resp)
  /\ destroyPoll' = [destroyPoll EXCEPT !.pc = "progressMsg",
                                        !.rejected = IF resp = "rejected400" THEN CountUp(@) ELSE @]
  /\ UNCHANGED <<now, swept, booted, regVars, timers, sweeps, statusPoll, createCmd,
                 destroyCmd, powerCmd, coins, coinReply, lists, sent>>

\* await sendAutoCleanupFollowUp(...) of the destruction poller returns or
\* throws; a throw inside the try block reaches the catch, which reschedules
DestroyPollMsgReturn(ok) ==
  /\ destroyPoll.pc \in {"progressMsg", "doneMsg", "goneMsg", "timeoutMsg"}
  /\ destroyPoll' =
       IF destroyPoll.pc = "progressMsg" THEN [destroyPoll EXCEPT !.pc = "timer"]
       ELSE IF destroyPoll.pc = "doneMsg" /\ ~ok THEN [destroyPoll EXCEPT !.pc = "timer"]
       ELSE [destroyPoll EXCEPT !.pc = "done"]
  /\ UNCHANGED <<now, swept, booted, regVars, timers, prov, sweeps, statusPoll, createCmd,
                 destroyCmd, powerCmd, coins, coinReply, lists, sent>>

(***************************************************************************)
(* startInstance / stopInstance (index.js:664-709)                         *)
(***************************************************************************)

\* the start or halt request was sent and accepted; waitForInstanceStatus is
\* awaited
PowerRequest(id, target) ==
  /\ booted
  /\ CommandsIssued < MaxCommands
  /\ powerCmd.pc = "off"
  /\ prov[id].exists
  /\ powerCmd' = [pc |-> "waiting", id |-> id, target |-> target]
  /\ prov' = [prov EXCEPT ![id].power = target]
  /\ UNCHANGED <<now, swept, booted, regVars, timers, sweeps, statusPoll, createCmd,
                 destroyCmd, destroyPoll, coins, coinReply, lists, sent>>

\* waitForInstanceStatus returns: true when it saw the target power status
PowerWaitReturn(success) ==
  /\ powerCmd.pc = "waiting"
  /\ success => prov[powerCmd.id].exists /\ prov[powerCmd.id].power = powerCmd.target
  /\ IF success
     THEN SetRegistry(updateInstance(instances, powerCmd.id, powerCmd.target, NoMetadata, now))
     ELSE UNCHANGED regVars
  /\ powerCmd' = [powerCmd EXCEPT !.pc = "done"]
  /\ UNCHANGED <<now, swept, booted, timers, prov, sweeps, statusPoll, createCmd,
                 destroyCmd, destroyPoll, coins, coinReply, lists, sent>>

(***************************************************************************)
(* insert_coin_server and the coin_ button (index.js:3714-3765, 3900-3941) *)
(***************************************************************************)

\* an extension that starts the timer over with a fresh warningsSent
insertCoinResetsWarnings(heap, timer) ==
  [heap EXCEPT ![timer].expiresAt = @ + SELF_DESTRUCT_COIN_MINUTES,
               ![timer].extendedCount = @ + 1,
               ![timer].warningsSent = <<>>]

\* an extension that counts its increment from the present time
insertCoinFromNow(heap, timer) ==
  [heap EXCEPT ![timer].expiresAt = now + SELF_DESTRUCT_COIN_MINUTES,
               ![timer].extendedCount = @ + 1]

\* timer.expiresAt = timer.expiresAt + SELF_DESTRUCT_COIN_MINUTES * 60 * 1000;
\* timer.extendedCount = (timer.extendedCount || 0) + 1, on the object itself
insertCoin(heap, timer) ==
  [heap EXCEPT ![timer].expiresAt = @ + SELF_DESTRUCT_COIN_MINUTES,
               ![timer].extendedCount = @ + 1]

\* an extension request that starts a timer for a record without one
InsertCoinStartsTimer(id) ==
  /\ booted
  /\ CommandsIssued < MaxCommands
  /\ coins < MaxCoins
  /\ coins' = coins + 1
  /\ coinReply' = "extended"
  /\ IF HasTimer(instances, id)
     THEN /\ timers' = insertCoin(timers, TimerOf(getTracked(instances, id)))
          /\ UNCHANGED regVars
     ELSE /\ Len(timers) < MaxTimers
          /\ LET after == initializeSelfDestructTimer(instances, timers, id, now)
             IN /\ SetRegistry(after.instances)
                /\ timers' = after.timers
  /\ UNCHANGED <<now, swept, booted, prov, sweeps, statusPoll, createCmd,
                 destroyCmd, destroyPoll, powerCmd, lists, sent>>

InsertCoin(id) ==
  /\ booted
  /\ CommandsIssued < MaxCommands
  /\ coins < MaxCoins
  /\ coins' = coins + 1
  /\ coinReply' = IF HasTimer(instances, id) THEN "extended" ELSE "noActiveTimer"
  /\ IF HasTimer(instances, id)
     THEN /\ timers' = insertCoin(timers, TimerOf(getTracked(instances, id)))
          /\ SetRegistry(updateInstance(instances, id, getTracked(instances, id).status,
                                        [selfDestructTimer |-> TimerOf(getTracked(instances, id))],
                                        now))
     ELSE UNCHANGED <<regVars, timers>>
  /\ UNCHANGED <<now, swept, booted, prov, sweeps, statusPoll, createCmd,
                 destroyCmd, destroyPoll, powerCmd, lists, sent>>

(***************************************************************************)
(* /list reconciliation (index.js:2486-2530) and startup recovery          *)
(* (index.js:3150-3175)                                                    *)
(***************************************************************************)

\* vultrInstances, in the provider's order
Listed == SelectSeq(IdOrder, LAMBDA id : prov[id].exists)

\* vultrInstances.forEach(...) of listCommand.execute from element i on
RECURSIVE listSync(_, _, _, _, _)
listSync(insts, activeInstances, listed, i, t) ==
  IF i > Len(listed) THEN insts
  ELSE LET id == listed[i]
           tracked == \E k \in DOMAIN activeInstances : activeInstances[k].id = id
       IN listSync(IF tracked
                   THEN updateInstance(insts, id, prov[id].power, [ip |-> prov[id].ip], t)
                   ELSE trackInstance(insts, id, "unknown", "Unknown", prov[id].power,
                                      [ip |-> prov[id].ip, name |-> "label"], t),
                   activeInstances, listed, i + 1, t)

\* activeInstances.forEach(...): tracked instances the provider did not list
RECURSIVE markTerminated(_, _, _, _, _)
markTerminated(insts, activeInstances, listed, k, t) ==
  IF k > Len(activeInstances) THEN insts
  ELSE markTerminated(IF activeInstances[k].id \in Range(listed) THEN insts
                      ELSE updateInstance(insts, activeInstances[k].id, "terminated",
                                          NoMetadata, t),
                      activeInstances, listed, k + 1, t)

\* await listInstances() returns or throws
ListReconcile(ok) ==
  /\ booted
  /\ CommandsIssued < MaxCommands
  /\ lists < MaxLists
  /\ lists' = lists + 1
  /\ IF ok
     THEN LET activeInstances == getActiveInstances(instances)
          IN SetRegistry(markTerminated(listSync(instances, activeInstances, Listed, 1, now),
                                        activeInstances, Listed, 1, now))
     ELSE UNCHANGED regVars
  /\ UNCHANGED <<now, swept, booted, timers, prov, sweeps, statusPoll, createCmd,
                 destroyCmd, destroyPoll, powerCmd, coins, coinReply, sent>>

\* instanceTest.instances.forEach(...) of the ready handler from element i on
RECURSIVE recover(_, _, _, _)
recover(insts, listed, i, t) ==
  IF i > Len(listed) THEN insts
  ELSE recover(trackInstance(insts, listed[i], "unknown", "System Recovery",
                             prov[listed[i]].power,
                             [ip |-> prov[listed[i]].ip, name |-> "label", region |-> "dfw"], t),
               listed, i + 1, t)

\* The ready handler: the provider's list is recovered into the registry (or
\* the list call failed), then startSelfDestructPolling() installs the sweep.
ReadyRecovery(ok) ==
  /\ ~booted
  /\ booted' = TRUE
  /\ IF ok THEN SetRegistry(recover(instances, Listed, 1, now)) ELSE UNCHANGED regVars
  /\ UNCHANGED <<now, swept, timers, prov, sweeps, statusPoll, createCmd,
                 destroyCmd, destroyPoll, powerCmd, coins, coinReply, lists, sent>>

TimerInit ==
  /\ now = 0
  /\ swept = FALSE
  /\ booted = FALSE
  /\ instances = <<>>
  /\ timers = <<>>
  /\ prov \in [Ids -> {ProvAbsent, ProvRunning}]
  /\ sweeps = [s \in Sweeps |-> IdleSweep]
  /\ statusPoll = OffPoll
  /\ createCmd = OffOp
  /\ destroyCmd = OffOp
  /\ destroyPoll = OffDestroyPoll
  /\ powerCmd = OffPower
  /\ coins = 0
  /\ coinReply = Null
  /\ lists = 0
  /\ sent = <<>>
  /\ timerSets = [id \in Ids |-> 0]
  /\ everRunning = {}
  /\ everDestroyed = {}
(***************************************************************************)
(* Specifications                                                          *)
(***************************************************************************)

NextProvision ==
  \/ \E fw \in FirewallEnv, snap \in SnapshotArg : CisCall(fw, snap) /\ UNCHANGED <<cisArgs, panelVars, tVars>>
  \/ \E ok \in BOOLEAN : CisSnapshotsReturn(ok) /\ UNCHANGED <<cisArgs, panelVars, tVars>>
  \/ \E resp \in CreateResponses : CisCreateReturn(resp) /\ UNCHANGED <<cisArgs, panelVars, tVars>>
  \/ \E resp \in {"ok", "notOk"} : CisDiagnosticReturn(resp) /\ UNCHANGED <<cisArgs, panelVars, tVars>>
  \/ \E resp \in {"rejected", "ackApplied", "ackNotApplied"} : CisAttachReturn(resp) /\ UNCHANGED <<cisArgs, panelVars, tVars>>
  \/ CisSettleElapsed /\ UNCHANGED <<cisArgs, panelVars, tVars>>
  \/ \E ok \in BOOLEAN : CisVerifyReturn(ok) /\ UNCHANGED <<cisArgs, panelVars, tVars>>
  \/ CisBackoffElapsed /\ UNCHANGED <<cisArgs, panelVars, tVars>>
  \/ \E ok \in BOOLEAN : CisTeardownReturn(ok) /\ UNCHANGED <<cisArgs, panelVars, tVars>>
  \/ \E ok \in BOOLEAN : CisDdosReturn(ok) /\ UNCHANGED <<cisArgs, panelVars, tVars>>
  \/ CisDdosSettleElapsed /\ UNCHANGED <<cisArgs, panelVars, tVars>>
  \/ \E resp \in {"enabled", "notEnabled", "rejected"} : CisDdosVerifyReturn(resp) /\ UNCHANGED <<cisArgs, panelVars, tVars>>

InitProvision ==
  /\ firewallGroupId \in FirewallEnv
  /\ snapshotId \in SnapshotArg
  /\ CisInit /\ PanelInit /\ panelData = PanelEmpty /\ TimerInit /\ ~prov["i1"].exists

SpecProvision == InitProvision /\ [][NextProvision]_vars

NextPanel ==
  \/ \E kind \in {"interaction", "followup", "periodic"} : TriggerCall(kind) /\ UNCHANGED <<cisVars, tVars>>
  \/ \E found \in BOOLEAN : RestoreCall(found) /\ UNCHANGED <<cisVars, tVars>>
  \/ \E c \in Calls : PanelWaitElapsed(c) /\ UNCHANGED <<cisVars, tVars>>
  \/ \E c \in Calls, ok \in BOOLEAN : PanelGenerated(c, ok) /\ UNCHANGED <<cisVars, tVars>>
  \/ \E c \in Calls :
       \E o \in PanelWriteOutcomes(up[c].kind, panelData) : PanelWritten(c, o) /\ UNCHANGED <<cisVars, tVars>>
  \/ \E c \in Calls : PanelErrorReplied(c) /\ UNCHANGED <<cisVars, tVars>>
  \/ QueuedTimerFires /\ UNCHANGED <<cisVars, tVars>>

InitPanel == CisArgsValid /\ CisInit /\ PanelInit /\ TimerInit /\ ~prov["i1"].exists

SpecPanel == InitPanel /\ [][NextPanel]_vars


NextTimer ==
  \/ Tick /\ UNCHANGED <<cisVars, panelVars>>
  \/ \E id \in Ids, what \in {"active", "running", "address", "vanish"} :
       ProviderStep(id, what) /\ UNCHANGED <<cisVars, panelVars>>
  \/ \E ok \in BOOLEAN : ReadyRecovery(ok) /\ UNCHANGED <<cisVars, panelVars>>
  \/ \E id \in Ids, power \in {"running", "stopped"} :
       CreateTracked(id, power) /\ UNCHANGED <<cisVars, panelVars>>
  \/ \E ok \in BOOLEAN : CreateMsgReturn(ok) /\ UNCHANGED <<cisVars, panelVars>>
  \/ StatusPollTimerFires /\ UNCHANGED <<cisVars, panelVars>>
  \/ \E resp \in {"instance", "gone404", "goneEmpty", "error"} :
       StatusPollGetReturn(resp) /\ UNCHANGED <<cisVars, panelVars>>
  \/ \E ok \in BOOLEAN : StatusPollDmReturn(ok) /\ UNCHANGED <<cisVars, panelVars>>
  \/ \E ok \in BOOLEAN : StatusPollMsgReturn(ok) /\ UNCHANGED <<cisVars, panelVars>>
  \/ \E s \in Sweeps : SweepStart(s) /\ UNCHANGED <<cisVars, panelVars>>
  \/ \E s \in Sweeps, resp \in {"instance", "gone404", "goneEmpty", "error"} :
       SweepExistsReturn(s, resp) /\ UNCHANGED <<cisVars, panelVars>>
  \/ \E s \in Sweeps, resp \in {"accepted", "lingers", "rejected400", "error"} :
       SweepDeleteReturn(s, resp) /\ UNCHANGED <<cisVars, panelVars>>
  \/ \E s \in Sweeps, resp \in {"user", "none", "throw"} :
       SweepExpiryFetchReturn(s, resp) /\ UNCHANGED <<cisVars, panelVars>>
  \/ \E s \in Sweeps, ok \in BOOLEAN : SweepExpirySendReturn(s, ok) /\ UNCHANGED <<cisVars, panelVars>>
  \/ \E s \in Sweeps, resp \in {"user", "none", "throw"} :
       SweepWarnFetchReturn(s, resp) /\ UNCHANGED <<cisVars, panelVars>>
  \/ \E s \in Sweeps, ok \in BOOLEAN : SweepWarnSendReturn(s, ok) /\ UNCHANGED <<cisVars, panelVars>>
  \/ \E id \in Ids : InsertCoin(id) /\ UNCHANGED <<cisVars, panelVars>>
  \/ \E id \in Ids : DestroyRequest(id) /\ UNCHANGED <<cisVars, panelVars>>
  \/ \E resp \in {"instance", "gone404", "goneEmpty", "error"} :
       DestroyGetReturn(resp) /\ UNCHANGED <<cisVars, panelVars>>
  \/ \E resp \in {"accepted", "lingers", "rejected400", "error"} :
       DestroyDeleteReturn(resp) /\ UNCHANGED <<cisVars, panelVars>>

InitTimer == CisArgsValid /\ CisInit /\ PanelInit /\ panelData = PanelEmpty /\ TimerInit

SpecTimer == InitTimer /\ [][NextTimer]_vars

NextLifecycle ==
  \/ PollTick /\ UNCHANGED <<cisVars, panelVars>>
  \/ \E id \in Ids, what \in {"active", "running", "address", "vanish"} :
       ProviderStep(id, what) /\ UNCHANGED <<cisVars, panelVars>>
  \/ \E ok \in BOOLEAN : ReadyRecovery(ok) /\ UNCHANGED <<cisVars, panelVars>>
  \/ \E id \in Ids, power \in {"running", "stopped"} :
       CreateTracked(id, power) /\ UNCHANGED <<cisVars, panelVars>>
  \/ \E ok \in BOOLEAN : CreateMsgReturn(ok) /\ UNCHANGED <<cisVars, panelVars>>
  \/ StatusPollTimerFires /\ UNCHANGED <<cisVars, panelVars>>
  \/ \E resp \in {"instance", "gone404", "goneEmpty", "error"} :
       StatusPollGetReturn(resp) /\ UNCHANGED <<cisVars, panelVars>>
  \/ \E ok \in BOOLEAN : StatusPollDmReturn(ok) /\ UNCHANGED <<cisVars, panelVars>>
  \/ \E ok \in BOOLEAN : StatusPollMsgReturn(ok) /\ UNCHANGED <<cisVars, panelVars>>
  \/ \E id \in Ids : DestroyRequest(id) /\ UNCHANGED <<cisVars, panelVars>>
  \/ \E resp \in {"instance", "gone404", "goneEmpty", "error"} :
       DestroyGetReturn(resp) /\ UNCHANGED <<cisVars, panelVars>>
  \/ \E resp \in {"accepted", "lingers", "rejected400", "error"} :
       DestroyDeleteReturn(resp) /\ UNCHANGED <<cisVars, panelVars>>
  \/ DestroyPollTimerFires /\ UNCHANGED <<cisVars, panelVars>>
  \/ \E resp \in {"instance", "gone404", "goneEmpty", "error"} :
       DestroyPollGetReturn(resp) /\ UNCHANGED <<cisVars, panelVars>>
  \/ \E resp \in {"accepted", "lingers", "rejected400", "error"} :
       DestroyPollDeleteReturn(resp) /\ UNCHANGED <<cisVars, panelVars>>
  \/ \E ok \in BOOLEAN : DestroyPollMsgReturn(ok) /\ UNCHANGED <<cisVars, panelVars>>
  \/ \E id \in Ids, target \in {"running", "stopped"} :
       PowerRequest(id, target) /\ UNCHANGED <<cisVars, panelVars>>
  \/ \E success \in BOOLEAN : PowerWaitReturn(success) /\ UNCHANGED <<cisVars, panelVars>>
  \/ \E ok \in BOOLEAN : ListReconcile(ok) /\ UNCHANGED <<cisVars, panelVars>>

InitLifecycle == InitTimer

SpecLifecycle == InitLifecycle /\ [][NextLifecycle]_vars

\* The destroy_server handler and the destruction poller on their own, with
\* the scheduling of the event loop: a continuation whose await has settled
\* runs, a timer that is due fires, and time does not stand still while a
\* poller keeps waiting for answers.
DestroyHandlerStep ==
  \/ \E resp \in {"instance", "gone404", "goneEmpty", "error"} : DestroyGetReturn(resp)
  \/ \E resp \in {"accepted", "lingers", "rejected400", "error"} : DestroyDeleteReturn(resp)

DestroyPollStep ==
  \/ DestroyPollTimerFires
  \/ \E resp \in {"instance", "gone404", "goneEmpty", "error"} : DestroyPollGetReturn(resp)
  \/ \E resp \in {"accepted", "lingers", "rejected400", "error"} : DestroyPollDeleteReturn(resp)
  \/ \E ok \in BOOLEAN : DestroyPollMsgReturn(ok)

NextDestroy ==
  \/ PollTick /\ UNCHANGED <<cisVars, panelVars>>
  \/ \E id \in Ids : ProviderStep(id, "vanish") /\ UNCHANGED <<cisVars, panelVars>>
  \/ \E ok \in BOOLEAN : ReadyRecovery(ok) /\ UNCHANGED <<cisVars, panelVars>>
  \/ \E id \in Ids : DestroyRequest(id) /\ UNCHANGED <<cisVars, panelVars>>
  \/ DestroyHandlerStep /\ UNCHANGED <<cisVars, panelVars>>
  \/ DestroyPollStep /\ UNCHANGED <<cisVars, panelVars>>

InitDestroy == InitTimer

SpecDestroy ==
  /\ InitDestroy
  /\ [][NextDestroy]_vars
  /\ WF_vars(DestroyHandlerStep /\ UNCHANGED <<cisVars, panelVars>>)
  /\ WF_vars(DestroyPollStep /\ UNCHANGED <<cisVars, panelVars>>)
  /\ SF_vars(PollTick /\ UNCHANGED <<cisVars, panelVars>>)

\* The registry under the operations that write whole records: the create
\* flow, the status poller, the checkTimers runs and /list reconciliation.
NextRegistry ==
  \/ Tick /\ UNCHANGED <<cisVars, panelVars>>
  \/ \E id \in Ids, what \in {"active", "running", "address", "vanish"} :
       ProviderStep(id, what) /\ UNCHANGED <<cisVars, panelVars>>
  \/ \E ok \in BOOLEAN : ReadyRecovery(ok) /\ UNCHANGED <<cisVars, panelVars>>
  \/ \E id \in Ids, power \in {"running", "stopped"} :
       CreateTracked(id, power) /\ UNCHANGED <<cisVars, panelVars>>
  \/ \E ok \in BOOLEAN : CreateMsgReturn(ok) /\ UNCHANGED <<cisVars, panelVars>>
  \/ StatusPollTimerFires /\ UNCHANGED <<cisVars, panelVars>>
  \/ \E resp \in {"instance", "gone404", "goneEmpty", "error"} :
       StatusPollGetReturn(resp) /\ UNCHANGED <<cisVars, panelVars>>
  \/ \E ok \in BOOLEAN : StatusPollDmReturn(ok) /\ UNCHANGED <<cisVars, panelVars>>
  \/ \E ok \in BOOLEAN : StatusPollMsgReturn(ok) /\ UNCHANGED <<cisVars, panelVars>>
  \/ \E s \in Sweeps : SweepStart(s) /\ UNCHANGED <<cisVars, panelVars>>
  \/ \E s \in Sweeps, resp \in {"instance", "gone404", "goneEmpty", "error"} :
       SweepExistsReturn(s, resp) /\ UNCHANGED <<cisVars, panelVars>>
  \/ \E s \in Sweeps, resp \in {"accepted", "lingers", "rejected400", "error"} :
       SweepDeleteReturn(s, resp) /\ UNCHANGED <<cisVars, panelVars>>
  \/ \E s \in Sweeps, resp \in {"user", "none", "throw"} :
       SweepExpiryFetchReturn(s, resp) /\ UNCHANGED <<cisVars, panelVars>>
  \/ \E s \in Sweeps, ok \in BOOLEAN : SweepExpirySendReturn(s, ok) /\ UNCHANGED <<cisVars, panelVars>>
  \/ \E s \in Sweeps, resp \in {"user", "none", "throw"} :
       SweepWarnFetchReturn(s, resp) /\ UNCHANGED <<cisVars, panelVars>>
  \/ \E s \in Sweeps, ok \in BOOLEAN : SweepWarnSendReturn(s, ok) /\ UNCHANGED <<cisVars, panelVars>>
  \/ \E ok \in BOOLEAN : ListReconcile(ok) /\ UNCHANGED <<cisVars, panelVars>>

InitRegistry == InitTimer

SpecRegistry == InitRegistry /\ [][NextRegistry]_vars

\* The two pollers one after the other, with the scheduling of the event
\* loop: a continuation whose await has settled runs, a timer that is due
\* fires, and time does not stand still while a poller keeps waiting for
\* answers.  The operator asks for one thing at a time: a destruction when
\* no create flow or status poller is running, a creation when no destroy
\* handler or destruction poller is.
StatusPollRuns ==
  \/ StatusPollTimerFires
  \/ \E resp \in {"instance", "gone404", "goneEmpty", "error"} : StatusPollGetReturn(resp)
  \/ \E ok \in BOOLEAN : StatusPollDmReturn(ok)
  \/ \E ok \in BOOLEAN : StatusPollMsgReturn(ok)

NextPollers ==
  \/ PollTick /\ UNCHANGED <<cisVars, panelVars>>
  \/ \E id \in Ids, what \in {"active", "running", "address", "vanish"} :
       ProviderStep(id, what) /\ UNCHANGED <<cisVars, panelVars>>
  \/ \E ok \in BOOLEAN : ReadyRecovery(ok) /\ UNCHANGED <<cisVars, panelVars>>
  \/ \E id \in Ids, power \in {"running", "stopped"} :
       /\ destroyCmd.pc \in {"off", "done"}
       /\ destroyPoll.pc \in {"off", "done"}
       /\ CreateTracked(id, power) /\ UNCHANGED <<cisVars, panelVars>>
  \/ \E ok \in BOOLEAN : CreateMsgReturn(ok) /\ UNCHANGED <<cisVars, panelVars>>
  \/ StatusPollRuns /\ UNCHANGED <<cisVars, panelVars>>
  \/ \E id \in Ids :
       /\ createCmd.pc \in {"off", "done"}
       /\ statusPoll.pc \in {"off", "done"}
       /\ DestroyRequest(id) /\ UNCHANGED <<cisVars, panelVars>>
  \/ DestroyHandlerStep /\ UNCHANGED <<cisVars, panelVars>>
  \/ DestroyPollStep /\ UNCHANGED <<cisVars, panelVars>>

InitPollers == InitTimer

SpecPollers ==
  /\ InitPollers
  /\ [][NextPollers]_vars
  /\ WF_vars(StatusPollRuns /\ UNCHANGED <<cisVars, panelVars>>)
  /\ WF_vars(DestroyPollStep /\ UNCHANGED <<cisVars, panelVars>>)
  /\ SF_vars(PollTick /\ UNCHANGED <<cisVars, panelVars>>)

\* The life of a timer from the creation of the instance to its expiry, with
\* the scheduling the timer engine relies on: checkTimers runs keep being
\* started and resumed, a delete that keeps being sent is acknowledged in the
\* end, and an existence check that keeps being made is answered in the end
\* with the instance or with "not found" rather than with another error.
SweepRuns ==
  \/ \E s \in Sweeps : SweepStart(s)
  \/ \E s \in Sweeps, resp \in {"instance", "gone404", "goneEmpty", "error"} :
       SweepExistsReturn(s, resp)
  \/ \E s \in Sweeps, resp \in {"accepted", "lingers", "rejected400", "error"} :
       SweepDeleteReturn(s, resp)
  \/ \E s \in Sweeps, resp \in {"user", "none", "throw"} : SweepExpiryFetchReturn(s, resp)
  \/ \E s \in Sweeps, ok \in BOOLEAN : SweepExpirySendReturn(s, ok)
  \/ \E s \in Sweeps, resp \in {"user", "none", "throw"} : SweepWarnFetchReturn(s, resp)
  \/ \E s \in Sweeps, ok \in BOOLEAN : SweepWarnSendReturn(s, ok)

NextExpiry ==
  \/ Tick /\ UNCHANGED <<cisVars, panelVars>>
  \/ \E id \in Ids, what \in {"active", "running", "address", "vanish"} :
       ProviderStep(id, what) /\ UNCHANGED <<cisVars, panelVars>>
  \/ \E ok \in BOOLEAN : ReadyRecovery(ok) /\ UNCHANGED <<cisVars, panelVars>>
  \/ \E id \in Ids : CreateTracked(id, "running") /\ UNCHANGED <<cisVars, panelVars>>
  \/ \E ok \in BOOLEAN : CreateMsgReturn(ok) /\ UNCHANGED <<cisVars, panelVars>>
  \/ StatusPollRuns /\ UNCHANGED <<cisVars, panelVars>>
  \/ SweepRuns /\ UNCHANGED <<cisVars, panelVars>>

SpecExpiry ==
  /\ InitTimer
  /\ [][NextExpiry]_vars
  /\ WF_vars(SweepRuns /\ UNCHANGED <<cisVars, panelVars>>)
  /\ SF_vars(/\ \E s \in Sweeps, resp \in {"accepted", "lingers"} : SweepDeleteReturn(s, resp)
             /\ UNCHANGED <<cisVars, panelVars>>)
  /\ SF_vars(/\ \E s \in Sweeps, resp \in {"instance", "gone404", "goneEmpty"} :
                  SweepExistsReturn(s, resp)
             /\ UNCHANGED <<cisVars, panelVars>>)

\* instanceState on its own: its functions called in any order with the
\* arguments their callers use, the clock, and the start of checkTimers runs,
\* which read the registry through getActiveInstances.  The calls are made
\* while no checkTimers run is suspended; what a suspended run does to the
\* registry is the subject of SpecTimer.
NextInstanceState ==
  \/ \E ok \in BOOLEAN : ReadyRecovery(ok) /\ UNCHANGED <<cisVars, panelVars>>
  \/ \E id \in TrackedIds, status \in {Null, "running"} :
       /\ \A s \in Sweeps : sweeps[s].pc = "idle"
       /\ TrackInstanceCall(id, status, NoMetadata) /\ UNCHANGED <<cisVars, panelVars>>
  \/ \E id \in TrackedIds, status \in {"running", "terminated", "destroyed"},
        metadata \in {NoMetadata, [selfDestructTimer |-> NoTimer]} :
       /\ \A s \in Sweeps : sweeps[s].pc = "idle"
       /\ UpdateInstanceCall(id, status, metadata) /\ UNCHANGED <<cisVars, panelVars>>
  \/ \E id \in TrackedIds :
       /\ \A s \in Sweeps : sweeps[s].pc = "idle"
       /\ Len(timers) < MaxRegistryTimers
       /\ InitializeTimerCall(id) /\ UNCHANGED <<cisVars, panelVars>>
  \/ Tick /\ UNCHANGED <<cisVars, panelVars>>
  \/ \E s \in Sweeps : SweepStart(s) /\ UNCHANGED <<cisVars, panelVars>>

SpecInstanceState == InitTimer /\ [][NextInstanceState]_vars

(***************************************************************************)
(* Claims about createInstanceFromSnapshot, checked under SpecProvision    *)
(***************************************************************************)

\* C1: once createInstanceFromSnapshot has returned or thrown, every instance
\* it caused to be created that still exists at the provider has had its
\* firewall attachment confirmed by a re-fetch.
C1_NoUnverifiedInstanceLeft ==
  CisDone => \A i \in created \cap provInstances : i \in verified

\* C2: if verification never succeeded within the 10 attempts, then once the
\* call is over the provider no longer has the instance and the call threw
\* the security failure.
C2_TeardownOccurred ==
  (CisDone /\ failedAttempts = maxRetries) =>
    /\ instanceId \notin provInstances
    /\ cisResult.outcome = "thrown"
    /\ cisResult.error = "SecurityFailure"

\* C3: the provider receives a delete for the instance only after the 10th
\* failed attempt, exactly once, and a call whose 10 attempts all failed
\* ends by throwing and never returns the instance.
C3_ExactlyOneDelete ==
  /\ deleteRequests <= 1
  /\ deleteRequests = 1 => (failedAttempts = maxRetries /\ ~firewallAttached)
  /\ (failedAttempts = maxRetries /\ cisPc \notin {"backoff"}) =>
        (deleteRequests = 1 /\ cisPc \in {"teardown", "thrown"})
  /\ (CisDone /\ failedAttempts = maxRetries) =>
        (cisResult.outcome = "thrown" /\ cisResult.error = "SecurityFailure")

C3_Witness ==
  /\ cisPc = "thrown"
  /\ failedAttempts = maxRetries
  /\ deleteRequests = 1
  /\ attachRequests = maxRetries

(***************************************************************************)
(* Claims about updatePanel, checked under SpecPanel                       *)
(***************************************************************************)

\* C4: at most one updatePanel invocation is inside the render section at
\* any time, and panelUpdateInProgress is set exactly while one is.
C4_OneRenderAtATime ==
  /\ Cardinality({c \in Calls : InRender(c)}) <= 1
  /\ panelUpdateInProgress <=> (\E c \in Calls : InRender(c))

\* A render entered through the 100 ms retry path is in progress while
\* another interaction call waits and a blocked call has set the flag.
C4_Witness ==
  \E c, d \in Calls :
    /\ InRender(c) /\ up[c].kind = "interaction" /\ up[c].ord >= 2
    /\ up[d].pc = "wait100"
    /\ pendingPanelUpdate

\* C5: when N >= 1 calls were made while render no. 1 was in progress and
\* none afterwards, then once nothing is running or scheduled exactly one
\* more render has executed.
C5_ExactlyOneExtraRender ==
  (PanelIdle /\ callsDuringFirst >= 1 /\ lateCalls = 0) => renderStarts = 2

\* C6: no call is dropped: when nothing is running or scheduled and the
\* periodic refresh has nothing to refresh, every call made so far has been
\* followed by a render that started at or after it.
C6_NoRefreshDropped ==
  PanelQuiescent => unserved = 0

(***************************************************************************)
(* Claims about the self-destruct timers, checked under SpecTimer and      *)
(* SpecLifecycle                                                           *)
(***************************************************************************)

\* C7: over the lifetime of an instance its record goes from having no
\* selfDestructTimer to having one at most once, whatever the interleaving of
\* status polls, destroy requests, sweeps and extensions.
C7_TimerSetAtMostOnce ==
  \A id \in Ids : timerSets[id] <= 1

\* C8: a tracked record has a selfDestructTimer exactly when its status has
\* at some point been "running" and it has not been marked destroyed.
C8_TimerIffRunningNotDestroyed ==
  \A id \in Ids :
    IsTracked(instances, id) =>
      (HasTimer(instances, id) <=> (id \in everRunning /\ id \notin everDestroyed))

\* position of a notification in the order 10-minute, 5-minute, expiry
NoticeRank(kind) == IF kind = "10min" THEN 1 ELSE IF kind = "5min" THEN 2 ELSE 3

SelfDestructNotices(id) ==
  SelectSeq(sent, LAMBDA m : m.id = id /\ m.kind \in {"10min", "5min", "expiry"})

\* C9: the self-destruct notifications of an instance are delivered in the
\* order 10-minute warning, 5-minute warning, expiry: none is delivered after
\* one that comes later in that order.
C9_WarningsOrdered ==
  \A id \in Ids :
    LET notices == SelfDestructNotices(id)
    IN \A i, j \in DOMAIN notices :
         i < j => NoticeRank(notices[i].kind) <= NoticeRank(notices[j].kind)

\* C10: each of the 10-minute and 5-minute warnings is delivered at most
\* once per instance, also when checkTimers runs overlap.
C10_WarningAtMostOnce ==
  \A id \in Ids, kind \in {"10min", "5min"} :
    Cardinality({i \in DOMAIN sent : sent[i].id = id /\ sent[i].kind = kind}) <= 1

(***************************************************************************)
(* Claims about timer extension, checked under SpecTimer                   *)
(***************************************************************************)

\* the step is an extension request being handled
ExtensionStep == coins' = coins + 1

\* C11: an extension leaves warningsSent of the timer as it was, and no step
\* of any operation removes an element from the warningsSent of a timer
\* object or of the timer a record keeps.
C11_WarningsSentKept ==
  [][/\ \A t \in DOMAIN timers :
         /\ Range(timers[t].warningsSent) \subseteq Range(timers'[t].warningsSent)
         /\ ExtensionStep => timers'[t].warningsSent = timers[t].warningsSent
     /\ \A id \in Ids :
         (HasTimer(instances, id) /\ HasTimer(instances', id)) =>
           Range(timers[TimerOf(getTracked(instances, id))].warningsSent)
             \subseteq Range(timers'[TimerOf(getTracked(instances', id))].warningsSent)
     ]_vars

\* an extension was granted after the 10-minute warning had been recorded:
\* the first expiry (minute 180) is still ahead, the timer has been extended
C11_Witness ==
  \E id \in Ids :
    /\ HasTimer(instances, id)
    /\ LET timer == timers[TimerOf(getTracked(instances, id))]
       IN /\ timer.extendedCount = 1
          /\ "10min" \in Range(timer.warningsSent)
          /\ now < timer.initialDuration

\* C12: an extension of a record that has a timer sets expiresAt to the
\* previous expiresAt plus SELF_DESTRUCT_COIN_MINUTES and adds one to
\* extendedCount, whether or not the timer had expired.
C12_ExtensionAddsIncrement ==
  [][\A id \in Ids :
       (ExtensionStep /\ HasTimer(instances, id)) =>
         LET t == TimerOf(getTracked(instances, id))
         IN /\ timers'[t].expiresAt = timers[t].expiresAt + SELF_DESTRUCT_COIN_MINUTES
            /\ timers'[t].expiresAt > timers[t].expiresAt
            /\ timers'[t].extendedCount = timers[t].extendedCount + 1
            /\ TimerOf(getTracked(instances', id)) = t
     ]_vars

\* a timer that had run out when the extension request came: the clock has
\* not moved since, the timer now expires one increment after its old expiry
C12_Witness ==
  \E id \in Ids :
    /\ HasTimer(instances, id)
    /\ coinReply = "extended"
    /\ LET timer == timers[TimerOf(getTracked(instances, id))]
       IN /\ timer.extendedCount = 1
          /\ timer.expiresAt = now + SELF_DESTRUCT_COIN_MINUTES

\* C13: an extension request for an id that is untracked or whose record has
\* no timer is answered with the no-active-timer reply and changes neither
\* the registry nor any timer.
C13_NoTimerNoChange ==
  [][\A id \in Ids :
       (ExtensionStep /\ ~HasTimer(instances, id)) =>
         /\ coinReply' = "noActiveTimer"
         /\ instances' = instances
         /\ timers' = timers
     ]_vars

\* the request was refused for a record that is tracked and has no timer
C13_Witness ==
  \E id \in Ids :
    /\ coinReply = "noActiveTimer"
    /\ IsTracked(instances, id)
    /\ ~HasTimer(instances, id)

(***************************************************************************)
(* Claims about expiry, checked under SpecTimer                            *)
(***************************************************************************)

\* the expiry notices delivered for an instance
ExpiryNotices(id) == {i \in DOMAIN sent : sent[i].id = id /\ sent[i].kind = "expiry"}

\* C14: a sweep that found an expired timer whose instance still existed has
\* had its delete accepted before it notifies; the record is then destroyed
\* and without a timer, and no more than one expiry notice is delivered for
\* the instance.
C14_ExpiryDestroysOnce ==
  /\ \A s \in Sweeps :
       sweeps[s].pc \in {"expiryFetch", "expirySend"} =>
         /\ StatusIs(instances, SweepRec(s).id, "destroyed")
         /\ ~HasTimer(instances, SweepRec(s).id)
         /\ ~prov[SweepRec(s).id].exists \/ prov[SweepRec(s).id].deleting
  /\ \A id \in Ids : Cardinality(ExpiryNotices(id)) <= 1

(***************************************************************************)
(* Claims about the status poller, checked under SpecLifecycle             *)
(***************************************************************************)

\* the step is one of the running status poller
StatusPollStep == statusPoll.pc # "off" /\ statusPoll' # statusPoll

\* C15: no step of the status poller sends the provider a command: the
\* instance's state at the provider and the start/stop handler are left as
\* they were; a poll that sees the instance active and powered off goes on
\* to its progress message and the next poll.
C15_PollerNeverStarts ==
  [][StatusPollStep =>
       /\ prov' = prov
       /\ powerCmd' = powerCmd
       /\ (/\ statusPoll.pc = "getInstance"
           /\ prov[statusPoll.id].exists
           /\ prov[statusPoll.id].status = "active"
           /\ prov[statusPoll.id].power = "stopped")
            => statusPoll'.pc \in {"progressMsg", "timer", "errorMsg"}
     ]_vars

\* the poller saw the instance active and powered off and is sending its
\* progress message
C15_Witness ==
  /\ statusPoll.pc = "progressMsg"
  /\ prov[statusPoll.id].exists
  /\ prov[statusPoll.id].status = "active"
  /\ prov[statusPoll.id].power = "stopped"

\* the ready DMs delivered for an instance
ReadyNotices(id) == {i \in DOMAIN sent : sent[i].id = id /\ sent[i].kind = "ready"}

\* C16: a run of the status poller delivers the ready DM at most once, and
\* once a poll has seen the instance ready and sent its DM, the run ends
\* with the follow-up message, whether that message is delivered or not.
C16_ReadyNotifiedOnce ==
  /\ [](\A id \in Ids : Cardinality(ReadyNotices(id)) <= 1)
  /\ [][statusPoll.pc = "finalMsg" => statusPoll'.pc \in {"finalMsg", "done"}]_vars

\* C17: the poller enters its ready branch only on a response that shows,
\* all at once, lifecycle status active, power status running and an address
\* that is neither empty nor 0.0.0.0; the ready DM is sent and a timer is
\* allocated only in that branch.
C17_ReadyNeedsAllThree ==
  [][/\ (statusPoll'.pc = "dm" /\ statusPoll.pc # "dm") =>
         /\ statusPoll.pc = "getInstance"
         /\ prov[statusPoll.id].exists
         /\ prov[statusPoll.id].status = "active"
         /\ prov[statusPoll.id].power = "running"
         /\ prov[statusPoll.id].ip \notin {"", "0.0.0.0"}
     /\ (Len(sent') > Len(sent) /\ sent'[Len(sent')].kind = "ready") => statusPoll.pc = "dm"
     /\ Len(timers') > Len(timers) => statusPoll.pc = "dm"
     ]_vars

\* the poller has sent the ready DM and started the timer
C17_Witness ==
  /\ statusPoll.pc = "finalMsg"
  /\ HasTimer(instances, statusPoll.id)
  /\ ReadyNotices(statusPoll.id) # {}

(***************************************************************************)
(* Claims about destruction, checked under SpecLifecycle and SpecDestroy   *)
(***************************************************************************)

\* the third poll of the destruction poller got a 404 from its existence
\* check after the deletes of the two polls before it were rejected with 400
ThirdPollFound404 ==
  /\ destroyPoll.pc = "goneMsg"
  /\ destroyPoll.attempts = 3
  /\ destroyPoll.rejected = 2

\* C18: when the delete was rejected with 400 in two polls and the existence
\* check of the third poll reports 404, the record is marked destroyed
\* while the poller reports success; a rejected delete only leads to the
\* progress message and the next poll, and the poller ends after its
\* success message.
C18_ConfirmedAfterRejections ==
  /\ [](ThirdPollFound404 =>
          (IsTracked(instances, destroyPoll.id) =>
             StatusIs(instances, destroyPoll.id, "destroyed")))
  /\ [][/\ destroyPoll.pc = "delete" => destroyPoll'.pc \in {"delete", "progressMsg"}
        /\ destroyPoll.pc = "progressMsg" => destroyPoll'.pc \in {"progressMsg", "timer"}
        /\ destroyPoll.pc = "goneMsg" => destroyPoll'.pc \in {"goneMsg", "done"}
       ]_vars

C18_Witness ==
  /\ ThirdPollFound404
  /\ StatusIs(instances, destroyPoll.id, "destroyed")

\* C19: once the destroy_server handler has sent its delete for an instance
\* that exists and is tracked, the record is eventually marked destroyed or
\* the poller reports its timeout.
C19_DestroyEventuallySettles ==
  \A id \in Ids :
    (destroyCmd.pc = "delete" /\ destroyCmd.id = id /\ prov[id].exists /\ IsTracked(instances, id))
      ~> (StatusIs(instances, id, "destroyed") \/ destroyPoll.pc = "timeoutMsg")

\* C20: a record whose status is "destroyed" keeps that status and is not
\* given a selfDestructTimer by any later step.
C20_DestroyedIsFinal ==
  [][\A id \in Ids :
       StatusIs(instances, id, "destroyed") =>
         /\ StatusIs(instances', id, "destroyed")
         /\ ~HasTimer(instances, id) => ~HasTimer(instances', id)
     ]_vars

(***************************************************************************)
(* Claims about the registry, checked under SpecRegistry                   *)
(***************************************************************************)

\* the step is a /list reconciliation that finds the id listed by the
\* provider while its record is terminated or destroyed: the forEach calls
\* trackInstance for an id that is already in the registry
ReTrackStep(id) ==
  /\ lists' = lists + 1
  /\ instances' # instances
  /\ IsTracked(instances, id)
  /\ ~IsActive(getTracked(instances, id))
  /\ id \in Range(Listed)

\* C21: the creator of a record is the one it was inserted with: no step
\* changes the creator of a record that is in the registry, a /list
\* reconciliation of a terminated or destroyed record included.
C21_CreatorNeverChanges ==
  [][\A id \in Ids :
       (IsTracked(instances, id) /\ IsTracked(instances', id)) =>
         getTracked(instances', id).creator = getTracked(instances, id).creator
     ]_vars

\* C22: trackInstance for an id that is already tracked keeps the fields
\* its metadata argument does not carry: the call /list makes for a record
\* that is terminated or destroyed leaves createdAt and selfDestructTimer of
\* the record as they were.
C22_ReTrackPreserves ==
  [][\A id \in Ids :
       ReTrackStep(id) =>
         /\ getTracked(instances', id).createdAt = getTracked(instances, id).createdAt
         /\ TimerOf(getTracked(instances', id)) = TimerOf(getTracked(instances, id))
     ]_vars

(***************************************************************************)
(* Claims about validation, checked under SpecProvision                    *)
(***************************************************************************)

\* C23: when VULTR_FIREWALL_GROUP_ID is absent or not a UUID, or the snapshot
\* id is empty, malformed or not among the provider's snapshots, the
\* provider never receives a create-instance request and no instance comes
\* to exist, and the call ends by throwing.
C23_InvalidInputNoCreate ==
  ~CisArgsValid =>
    /\ createRequests = 0
    /\ created = {}
    /\ provInstances = {}
    /\ cisPc \in {"idle", "getSnapshotsUnlisted", "thrown"}
    /\ CisDone => cisResult.outcome = "thrown"

\* the snapshot id passed the format test, getSnapshots answered, the id was
\* not among the snapshots and the call has thrown
C23_Witness ==
  /\ firewallGroupId = "uuid"
  /\ snapshotId = "unlisted"
  /\ cisPc = "thrown"
  /\ cisResult.error = "SnapshotNotFound"
  /\ createRequests = 0

(***************************************************************************)
(* Claims about the ceilings of the pollers, checked under SpecPollers     *)
(***************************************************************************)

C25_OneFailureNotice ==
  /\ [](statusPoll.failures <= 1 /\ destroyPoll.failures <= 1)
  /\ [][/\ (statusPoll'.pc = "done" /\ statusPoll.pc \notin {"done", "finalMsg", "goneMsg"}) =>
             statusPoll'.failures = 1
        /\ (destroyPoll'.pc = "done" /\ destroyPoll.pc \notin {"done", "doneMsg", "goneMsg"}) =>
             destroyPoll'.failures = 1
        /\ (/\ statusPoll.pc = "timer" /\ statusPoll' # statusPoll
            /\ now - statusPoll.startTime > StatusPollCeiling) =>
             (statusPoll'.pc = "timeoutMsg" /\ statusPoll'.failures = 1)
        /\ (/\ destroyPoll.pc = "timer" /\ destroyPoll' # destroyPoll
            /\ now - destroyPoll.startTime > DestroyPollCeiling) =>
             (destroyPoll'.pc = "timeoutMsg" /\ destroyPoll'.failures = 1)
       ]_vars

\* the status poller gave up on provider errors at the ceiling and the
\* destruction poller timed out, each after one failure message
C25_Witness ==
  /\ statusPoll.pc = "done"
  /\ statusPoll.failures = 1
  /\ now - statusPoll.startTime = StatusPollCeiling
  /\ destroyPoll.pc = "done"
  /\ destroyPoll.failures = 1

(***************************************************************************)
(* Claims about the expiry branch of checkTimers, checked under SpecTimer  *)
(***************************************************************************)

\* the step is the delete of run s failing: the run leaves its delete
\* without going on to the expiry notice
SweepDeleteFails(s) ==
  /\ sweeps[s].pc = "delete"
  /\ sweeps'[s] # sweeps[s]
  /\ sweeps'[s].pc # "expiryFetch"

\* the record of the id is active and its timer has run out
ExpiredActive(insts, heap, id, t) ==
  /\ IsTracked(insts, id)
  /\ IsActive(getTracked(insts, id))
  /\ HasTimer(insts, id)
  /\ heap[TimerOf(getTracked(insts, id))].expiresAt <= t

\* C26: a failed delete of the expiry branch leaves the registry and the
\* timers as they were, so that a run started afterwards enters the expiry
\* branch for a record that is still active and expired; and a step marks a
\* record destroyed only when a run's delete was accepted or its existence
\* check found the instance absent.
C26_FailedDeleteRetried ==
  [][/\ \A s \in Sweeps :
         SweepDeleteFails(s) => (instances' = instances /\ timers' = timers)
     /\ \A s \in Sweeps :
         (/\ sweeps[s].pc = "idle" /\ sweeps'[s].pc # "idle"
          /\ \E id \in Ids : ExpiredActive(instances, timers, id, now)) =>
           sweeps'[s].pc = "exists"
     /\ \A id \in Ids :
         (~StatusIs(instances, id, "destroyed") /\ StatusIs(instances', id, "destroyed")) =>
           \E s \in Sweeps :
             /\ sweeps[s].pc \in {"exists", "delete"}
             /\ SweepRec(s).id = id
             /\ \/ sweeps[s].pc = "delete" /\ (~prov'[id].exists \/ prov'[id].deleting)
                \/ sweeps[s].pc = "exists" /\ ~prov[id].exists
     ]_vars

\* the provider has refused a delete for the instance, the record is still
\* active with its expired timer, and a run is in the expiry branch again
C26_Witness ==
  \E id \in Ids, s \in Sweeps :
    /\ prov[id].exists /\ prov[id].refused /\ ~prov[id].deleting
    /\ destroyCmd.pc = "off"
    /\ ExpiredActive(instances, timers, id, now)
    /\ sweeps[s].pc = "delete"
    /\ SweepRec(s).id = id
    /\ \A r \in Sweeps \ {s} : sweeps[r].pc = "idle"

\* the step is the existence check of run s being answered "not found": the
\* 404 that getInstance rethrows, or an answer without an instance
SweepFindsGone(s) ==
  /\ sweeps[s].pc = "exists"
  /\ sweeps'[s] # sweeps[s]
  /\ sweeps'[s].answer \in {"gone404", "goneEmpty"}

\* C27: when the existence check of the expiry branch is answered "not
\* found", the run sends no delete, the record is marked destroyed and its
\* timer cleared, and the record is no longer one that a later run acts on.
C27_GoneMarkedLocally ==
  [][\A s \in Sweeps :
       SweepFindsGone(s) =>
         /\ sweeps'[s].pc # "delete"
         /\ prov' = prov
         /\ StatusIs(instances', SweepRec(s).id, "destroyed")
         /\ ~HasTimer(instances', SweepRec(s).id)
         /\ ~ExpiredActive(instances', timers', SweepRec(s).id, now)
     ]_vars

\* checkTimers runs that are suspended at an await
SweepsSuspended == {s \in Sweeps : sweeps[s].pc # "idle"}

\* C28: at most one checkTimers run is in progress at any time; no run
\* starts while an earlier one is suspended at a provider call or at the
\* sending of a notification.
C28_OneSweepAtATime ==
  Cardinality(SweepsSuspended) <= 1

\* the step is getInstance of the status poller being answered "not found"
StatusPollFindsGone ==
  /\ statusPoll.pc = "getInstance"
  /\ statusPoll' # statusPoll
  /\ statusPoll'.answer \in {"gone404", "goneEmpty"}

\* C29: when the instance has been destroyed at the provider while its
\* status poller runs, the poll whose getInstance is answered "not found"
\* is the last one: the poller schedules no further poll, neither in that
\* step nor after the message that the poll sends.
C29_GonePollerExits ==
  /\ [][StatusPollFindsGone => statusPoll'.pc \in {"goneMsg", "errorMsg", "done"}]_vars
  /\ [][statusPoll.pc = "goneMsg" => statusPoll'.pc \in {"goneMsg", "done"}]_vars

\* a step of the destruction poller that leaves the place pc
DestroyPollLeaves(pc) ==
  /\ destroyPoll.pc = pc
  /\ destroyPoll' # destroyPoll

\* the existence check of the destruction poller reports the instance
\* absent: an answer without an instance, or a 404/403 in the catch
DestroyPollFindsGone ==
  /\ DestroyPollLeaves("getInstance")
  /\ destroyPoll'.pc \in {"doneMsg", "goneMsg"}

\* C30: in a poll of the destruction poller, an existence check that reports
\* the instance absent marks the instance's record (if there is one)
\* destroyed, clears its timer and ends the polling; an instance that still exists is never taken for absent,
\* the delete sent for it is followed by the progress message whatever the
\* provider answers (a 400 included), and the next poll is scheduled.
C30_DestroyPollTick ==
  /\ [][DestroyPollFindsGone /\ IsTracked(instances, destroyPoll.id) =>
          /\ StatusIs(instances', destroyPoll.id, "destroyed")
          /\ ~HasTimer(instances', destroyPoll.id)]_vars
  /\ [][DestroyPollLeaves("doneMsg") \/ DestroyPollLeaves("goneMsg") =>
          destroyPoll'.pc = "done"]_vars
  /\ [][DestroyPollLeaves("getInstance") /\ prov[destroyPoll.id].exists =>
          destroyPoll'.pc \in {"delete", "timer"}]_vars
  /\ [][DestroyPollLeaves("delete") =>
          /\ destroyPoll'.pc = "progressMsg"
          /\ prov' \in {ProvAfterDelete(destroyPoll.id, resp) :
                          resp \in DeleteOutcomes(destroyPoll.id)}]_vars
  /\ [][DestroyPollLeaves("progressMsg") => destroyPoll'.pc = "timer"]_vars

(***************************************************************************)
(* Further claims about createInstanceFromSnapshot (SpecProvision)         *)
(***************************************************************************)

\* C31: the attach loop sends at most 10 attach requests; the code after the
\* loop is reached with firewallAttached only when a re-fetch of the instance
\* reported the requested firewall group (the provider has it attached; an
\* acknowledged attach call whose re-fetch did not match does not count);
\* and no attach request is sent once a re-fetch has matched.
C31_AttachLoopVerified ==
  /\ [](attachRequests <= maxRetries)
  /\ []((firewallAttached \/ cisPc \in {"ddos", "ddosSettle", "ddosVerify", "returned"}) =>
          /\ instanceId \in verified
          /\ instanceId \in provFirewall)
  /\ [][(verified # {} \/ verified' # {}) => attachRequests' = attachRequests]_vars

\* the call returned the instance after nine failed attempts: the tenth
\* attach request was acknowledged and its re-fetch matched
C31_Witness ==
  /\ cisPc = "returned"
  /\ attachRequests = maxRetries
  /\ failedAttempts = maxRetries - 1
  /\ instanceId \in verified

\* C32: once the firewall attachment is verified, neither a rejected DDoS
\* update, nor a rejected DDoS check, nor a check that does not list the
\* feature fails the call: every step from there leads on towards the
\* return of the instance, sends no delete, and the instance is returned
\* and still exists at the provider.
C32_DdosFailureNotFatal ==
  /\ [][(cisPc \in {"ddos", "ddosSettle", "ddosVerify"}) =>
          /\ cisPc' \in {"ddosSettle", "ddosVerify", "returned"}
          /\ deleteRequests' = deleteRequests
          /\ (provInstances' = provInstances)]_vars
  /\ [](cisPc = "returned" =>
          /\ cisResult.outcome = "returned"
          /\ cisResult.instance = instanceId
          /\ deleteRequests = 0
          /\ instanceId \in provInstances \cap verified)

\* the call returned the instance although the DDoS update was rejected
C32_Witness ==
  /\ cisPc = "returned"
  /\ cisResult.ddos = "updateRejected"
  /\ instanceId \in provInstances

\* C33: when createInstance resolves with an empty or malformed response,
\* the call fails without entering the attach loop and the provider has
\* received one create-instance request only.
C33_MalformedCreateNotRetried ==
  (\/ cisPc = "diagnostic"
   \/ /\ cisPc = "thrown"
      /\ cisResult.error \in {"EmptyResponse", "EmptyResponseDirectFailed",
                               "InvalidResponse", "MissingId"})
    => /\ createRequests = 1
       /\ attachRequests = 0
       /\ instanceId = Null

\* C34: when getInstance of a status poll fails (a provider error, the 404
\* that getInstance rethrows included) and less than the ceiling has passed
\* since the poller started, the poller does not end: the next poll is
\* scheduled.
C34_ErrorPollRetried ==
  [][(/\ statusPoll.pc = "getInstance"
      /\ statusPoll' # statusPoll
      /\ statusPoll'.answer \in {"error", "gone404"}
      /\ now - statusPoll.startTime < StatusPollCeiling)
       => /\ statusPoll'.pc = "timer"
          /\ statusPoll'.failures = statusPoll.failures]_vars

\* a poll made 15 minutes after the start failed and the next is scheduled
C34_Witness ==
  /\ statusPoll.pc = "timer"
  /\ statusPoll.answer = "error"
  /\ now - statusPoll.startTime = PollQuantum
  /\ prov[statusPoll.id].exists

(***************************************************************************)
(* Further claims about the timer engine                                   *)
(***************************************************************************)

\* C35: a checkTimers run sends its delete only for a timer that has run out
\* at the moment the delete is sent: when the existence check returns and
\* the delete follows, the timer the run examined is still expired (an
\* extension made while the run was waiting for the check keeps the run from
\* deleting).
C35_DeleteOnlyWhenExpired ==
  [][\A s \in Sweeps :
       (sweeps[s].pc = "exists" /\ sweeps'[s].pc = "delete") =>
         remainingMinutes(timers, sweeps[s].timer, now) <= 0
     ]_vars

\* C36: with checkTimers runs that keep running and a provider that in the
\* end acknowledges a delete or reports the instance not found, every active
\* record whose timer has run out is eventually marked destroyed.
C36_ExpiredEventuallyDestroyed ==
  \A id \in Ids :
    ExpiredActive(instances, timers, id, now) ~> StatusIs(instances, id, "destroyed")

\* C37: an active record whose status poller has reported the instance ready
\* (the record was given its timer then) has a selfDestructTimer, unless a
\* destruction poller for the instance is running.
C37_ReadyRecordKeepsTimer ==
  \A id \in Ids :
    (/\ IsTracked(instances, id)
     /\ IsActive(getTracked(instances, id))
     /\ timerSets[id] >= 1
     /\ ~(destroyPoll.id = id /\ destroyPoll.pc \notin {"off", "done"}))
      => HasTimer(instances, id)

(***************************************************************************)
(* Claims about instanceState itself, checked under SpecInstanceState      *)
(***************************************************************************)

\* C38: getActiveInstances returns exactly the records of the registry whose
\* status is neither "terminated" nor "destroyed", in the registry's order
\* (checked on every registry the calls can build); and the list a
\* checkTimers run starts with is that result, so the record the run
\* examines first is neither terminated nor destroyed.
C38_ActiveExcludesEnded ==
  /\ [](LET result == getActiveInstances(instances)
            kept == {j \in DOMAIN instances :
                       instances[j].status \notin {"terminated", "destroyed"}}
        IN /\ \A i \in DOMAIN result : result[i].status \notin {"terminated", "destroyed"}
           /\ \A j \in kept : \E i \in DOMAIN result : result[i] = instances[j]
           /\ Len(result) = Cardinality(kept)
           /\ \A i, k \in DOMAIN result :
                i < k => findIndex(instances, result[i].id) < findIndex(instances, result[k].id))
  /\ [][\A s \in Sweeps :
          (sweeps[s].pc = "idle" /\ sweeps'[s].pc # "idle") =>
            /\ \A i \in DOMAIN sweeps'[s].list :
                 sweeps'[s].list[i].status \notin {"terminated", "destroyed"}
            /\ \A j \in DOMAIN instances :
                 instances[j].status \notin {"terminated", "destroyed"} =>
                   \E i \in DOMAIN sweeps'[s].list : sweeps'[s].list[i] = instances[j]
       ]_vars

\* a checkTimers run has started on a registry that holds an active record
\* with an expired timer and a terminated or destroyed record: its list is
\* the active record alone
C38_Witness ==
  \E s \in Sweeps :
    /\ sweeps[s].pc = "exists"
    /\ Len(instances) = 2
    /\ Len(sweeps[s].list) = 1
    /\ \E j \in DOMAIN instances : instances[j].status \in {"terminated", "destroyed"}

\* C39: the registry never holds two records with the same id, and no call
\* removes a record or changes the id of a record.
C39_OneRecordPerId ==
  /\ [](\A i, j \in DOMAIN instances : instances[i].id = instances[j].id => i = j)
  /\ [][\A i \in DOMAIN instances :
          /\ i \in DOMAIN instances'
          /\ instances'[i].id = instances[i].id]_vars

\* both ids are tracked, and the record tracked first has since been tracked
\* again and updated (it was marked destroyed and holds a later createdAt)
C39_Witness ==
  /\ Len(instances) = 2
  /\ instances[1].id # instances[2].id
  /\ instances[1].createdAt > instances[2].createdAt
  /\ instances[1].status = "destroyed"
====
